---- MODULE Spec2Model ----
(***************************************************************************)
(* A model of ebaws: the interactive process driver Ejbca.cli_cmd with the *)
(* child process it drives, and the command handlers of App (do_init,      *)
(* do_onboot, do_renew) with the collaborators they call.                  *)
(*                                                                         *)
(* The module holds two state machines over one set of variables:          *)
(*   SpecCli  one call of Ejbca.cli_cmd running against one child process  *)
(*   SpecApp  one invocation of an App command                             *)
(* Each leaves the other's variables at their initial values.              *)
(***************************************************************************)
EXTENDS Integers, Sequences, FiniteSets, TLC

(***************************************************************************)
(* Bounds of the model.                                                    *)
(***************************************************************************)
\* The child process writes at most MaxLines lines (stdout and stderr together).
MaxLines == 2

Max(a, b) == IF a >= b THEN a ELSE b
Min(a, b) == IF a <= b THEN a ELSE b

VARIABLES
    (* ---- Ejbca.cli_cmd and its child process ---- *)
    caller,         \* which wrapper called cli_cmd: fixes on_out, on_err, ant_answer, log_obj
    script,         \* the lines the child process writes, in order, each on its stream
    written,        \* how many lines of the script the child has written
    proc,           \* the child process itself: "not_started", "running", "exited"
    exit_status,    \* the status the child exited with (-1 while it has not)
    stdout_buf,     \* p.stdout: lines captured from the child's stdout, not yet read
    stderr_buf,     \* p.stderr
    returncode,     \* p.commands[0].returncode as the driver sees it: -1 is None
    cpc,            \* the driver's position in cli_cmd
    out,            \* local out of cli_cmd (NoLine: nothing read)
    err,            \* local err of cli_cmd
    out_acc,        \* local out_acc
    err_acc,        \* local err_acc
    ret_code,       \* local ret_code
    log,            \* what has been written to the log
    log_closed,     \* whether log.close() was called
    fed,            \* every feeder.feed call so far, in order
    drained,        \* ids of the lines collected after the exit was seen (readlines)
    feeder_closed,  \* whether feeder.close() was called
    raised,         \* the exception cli_cmd is leaving with: "none", "setup" (opening
                    \* the log), "log" (log.write), "callback" (on_out / on_err)

    (* ---- App: one command invocation ---- *)
    cmd,            \* the command: "init", "onboot", "renew"
    noninteractive, \* self.noninteractive (-n)
    args_yes,       \* self.args.yes (--yes)
    attempts,       \* self.args.attempts (--attempts)
    args_email,     \* self.args.email: "none", "valid", "invalid"
    args_force,     \* self.args.force (--force)
    pc,             \* position in the command handler
    last_result,    \* self.last_result, set by return_code
    outcome,        \* "running", "returned" (through return_code), "raised" (an exception left the handler)
    disk_config,    \* the configuration file
    backups,        \* the records Core.backup_configuration has saved
    ops,            \* the collaborator operations executed so far, by call site
    config,         \* local config (what read_configuration gave)
    new_config,     \* local new_config
    domain_is_ok,   \* local domain_is_ok
    domain_ctr,     \* local domain_ctr
    port_retries,   \* how often le_check_port has tested the port again
    ejbca_install_result,  \* Ejbca.ejbca_install_result
    deploy_i,       \* attempts of the deploy loop of Ejbca.configure made so far
    install_i,      \* attempts of the install loop made so far
    enroll_new_cert, \* local enroll_new_cert of do_renew
    (* history of the run, kept for the properties *)
    domain_calls,   \* iterations of the domain loop that called the domain operation
    retry_asked,    \* how often the operator was asked 'Do you want to try again?'
    retry_declined, \* whether the operator declined to try the domain again
    loop_over,      \* whether the domain loop has ended
    declined,       \* which confirmation of do_init the operator declined (0: none)
    fatal,          \* the stage that failed fatally (0: none)
    all_ok,         \* every collaborator so far succeeded on its first call
    enough_ram,     \* what the last is_enough_ram() gave: "unknown", "yes", "no"
    swap_result,    \* how create_swap ended: "none", "ok", "cmd_failed", "no_space"
    cert_due,       \* test_certificate_for_renew: "unknown", "due", "fresh"
    prompted,       \* whether raw_input was called
    returned_names, \* the names the domain operation returned last
    keygen_ret,     \* what pkcs11_generate_default_key_set returned (-1: not called)
    deploy_res,     \* res of the last ant_deploy() of Ejbca.configure (-1: none yet)
    install_res,    \* res of the last ant_install() of Ejbca.configure (-1: none yet)
    restarted,      \* whether jboss_restart() ran since the last deploy or install attempt
    polled,         \* the last health poll since the last attempt: "none", "healthy", "timeout"
    last_attempt,   \* the last attempt of Ejbca.configure and what came before it
    configure_ret,  \* what Ejbca.configure returned (-1: it has not returned)
    port_open,      \* what the last test_port_open of le_check_port gave: "unknown", "open", "closed"
    port_answer,    \* the operator's last answer in le_check_port: "none", "yes", "no", "quit"
    cert_ready,     \* is_certificate_ready in do_renew: "unknown", "ready", "not_ready"
    ram_declined,   \* whether the operator declined the swap file of do_init
    fatal_category, \* why the command gave up: "none", "config_missing", "lock",
                    \* "port", "memory", "generic"

    (* ---- SysConfig: the memory check and the swap file ---- *)
    virt_mem,       \* psutil.virtual_memory().total, in MB
    swap_mem,       \* psutil.swap_memory().total, in MB
    mem_pc,         \* position in the memory stage: "idle", "check", "create_swap",
                    \* "recheck", "done", "failed"
    mem_enough,     \* what the last is_enough_ram() gave: "unknown", "yes", "no"

    (* ---- Ejbca.pkcs11_generate_default_key_set ---- *)
    retry_attempts, \* the retry_attempts argument
    key_pc,         \* "idle", "cmd" (in pkcs11_cmd), "key_return", "done", "raised"
    key_idx,        \* idx of the alias being generated, from 1
    key_try,        \* how many times pkcs11_cmd has run the command for this alias
    key_ret,        \* ret of pkcs11_cmd (-1 before the first run)
    key_cmds,       \* every generate command run so far: alias and exit status
    key_result,     \* what pkcs11_generate_default_key_set returned (-1: not yet)
    renew_outcome,  \* how le_install / le_renew ended: "none", "nothing_to_do",
                    \* "success", "no_change", "failed"

    (* ---- one call of jboss_wait_after_start / jboss_wait_after_deploy ---- *)
    wait_kind,      \* which of the two: "start", "deploy" ("none": no call)
    wait_pc,        \* "idle", "loop", "done"
    wait_i,         \* the loop variable i
    jboss_works,    \* local jboss_works; the value returned when wait_pc = "done"
    wait_out,       \* what the last status query gave
    queries,        \* status queries (jboss_cmd) issued so far
    sleeps,         \* time.sleep(3) calls so far
    seen_healthy,   \* whether the output of some query reported the healthy state

    (* ---- check_pid: the processes of one host and the pid lock ---- *)
    lock_holder,    \* the process whose pid the lock file holds (0: none)
    pid_pc,         \* per process: position in check_pid
    attempt_ctr,    \* per process: local attempt_ctr
    args_pidlock    \* per process: self.args.pidlock (--pid-lock)

cliVars == <<caller, script, written, proc, exit_status, stdout_buf, stderr_buf,
             returncode, cpc, out, err, out_acc, err_acc, ret_code, log,
             log_closed, fed, drained, feeder_closed, raised>>

argVars == <<cmd, noninteractive, args_yes, attempts, args_email, args_force>>
ctlVars == <<pc, last_result, outcome>>
diskVars == <<disk_config, backups>>
domVars == <<domain_is_ok, domain_ctr, domain_calls, retry_asked, retry_declined, loop_over>>
ejbcaVars == <<ejbca_install_result, deploy_i, install_i>>
histVars == <<declined, fatal, all_ok>>
obsVars == <<enough_ram, swap_result, cert_due, prompted, returned_names>>
pidVars == <<lock_holder, pid_pc, attempt_ctr, args_pidlock>>
keygenVars == <<keygen_ret>>
cfgVars == <<deploy_res, install_res, restarted, polled, last_attempt, configure_ret>>
waitVars == <<wait_kind, wait_pc, wait_i, jboss_works, wait_out, queries, sleeps,
              seen_healthy>>
portVars == <<port_open, port_answer>>
renewVars == <<cert_ready, renew_outcome>>
declVars == <<ram_declined>>
catVars == <<fatal_category>>
memVars == <<virt_mem, swap_mem, mem_pc, mem_enough>>
keyVars == <<retry_attempts, key_pc, key_idx, key_try, key_ret, key_cmds, key_result>>
extVars == <<keygenVars, cfgVars, portVars, renewVars, declVars, waitVars, catVars,
             memVars, keyVars>>

appVars == <<argVars, ctlVars, diskVars, ops, config, new_config, domVars,
             port_retries, ejbcaVars, enroll_new_cert, histVars, obsVars, extVars>>

vars == <<cliVars, appVars, pidVars>>

(***************************************************************************)
(* Lines.  A line is known by its position in the script (id) and by what  *)
(* its text looks like to the trigger rules (kind).                        *)
(***************************************************************************)
NoLine == [id |-> 0, stream |-> "none", kind |-> "none"]

\* Representative line texts.
LineKinds == {"plain", "please_enter", "input_please_enter", "input_truststore",
              "truststore_keystore", "password"}

Streams == {"stdout", "stderr"}

\* The phrases a representative line contains ("... in out").
Phrases(kind) ==
    CASE kind = "input_truststore"    -> {"truststore with the CA certificate for https"}
      [] kind = "truststore_keystore" -> {"truststore with the CA certificate for https",
                                          "keystore with the TLS key for https"}
      [] kind = "password"            -> {"Password:"}
      [] OTHER                        -> {}

\* How the stripped line begins, as far as the rules look.
Prefix(kind) ==
    CASE kind = "please_enter"        -> "Please enter"
      [] kind = "input_please_enter"  -> "[input] Please enter"
      [] kind = "input_truststore"    -> "[input] Please enter"
      [] OTHER                        -> ""

Contains(line, phrase) == phrase \in Phrases(line.kind)
StartsWith(line, prefix) == Prefix(line.kind) = prefix

(***************************************************************************)
(* Configuration records (Config): what the file holds and what the        *)
(* handlers carry in config / new_config.                                  *)
(***************************************************************************)
\* no configuration file: Core.read_configuration() gives None
AbsentConfig ==
    [state |-> "absent", reg |-> "none", domains |-> {}, last_ipv4 |-> "none",
     hostname |-> "none"]

\* a file without settings: has_nonempty_config() is false
EmptyConfig == [AbsentConfig EXCEPT !.state = "empty"]

\* the record of an earlier installation
OldConfig ==
    [state |-> "full", reg |-> "old", domains |-> {"old.d1"}, last_ipv4 |-> "old",
     hostname |-> "old.d1"]

\* an earlier record whose domain list is empty
NoDomainsConfig == [OldConfig EXCEPT !.domains = {}, !.hostname = "none"]

\* earlier records without a host name of the PKI, or with the default one
NoHostConfig == [OldConfig EXCEPT !.hostname = "none"]
LocalhostConfig == [OldConfig EXCEPT !.hostname = "localhost"]
EmptyHostConfig == [OldConfig EXCEPT !.hostname = ""]

\* Config.has_nonempty_config, with the `config is not None` test before it
has_nonempty_config(c) == c.state = "full"

\* the sets of names the domain service may assign
DomainSets == {{"d1"}, {"d1", "d2"}}

\* the cli_cmd variables while no cli_cmd call is modelled
CliIdle ==
    /\ caller = "none"
    /\ script = <<>>
    /\ written = 0
    /\ proc = "not_started"
    /\ exit_status = -1
    /\ stdout_buf = <<>>
    /\ stderr_buf = <<>>
    /\ returncode = -1
    /\ cpc = "idle"
    /\ out = NoLine
    /\ err = NoLine
    /\ out_acc = <<>>
    /\ err_acc = <<>>
    /\ ret_code = 1
    /\ log = <<>>
    /\ log_closed = FALSE
    /\ fed = <<>>
    /\ drained = {}
    /\ feeder_closed = FALSE
    /\ raised = "none"

\* the App variables before a command starts
AppStart ==
    /\ pc = "start"
    /\ last_result = 0
    /\ outcome = "running"
    /\ backups = {}
    /\ ops = {}
    /\ config = AbsentConfig
    /\ new_config = AbsentConfig
    /\ domain_is_ok = FALSE
    /\ domain_ctr = 0
    /\ port_retries = 0
    /\ ejbca_install_result = 1
    /\ deploy_i = 0
    /\ install_i = 0
    /\ enroll_new_cert = FALSE
    /\ domain_calls = 0
    /\ retry_asked = 0
    /\ retry_declined = FALSE
    /\ loop_over = FALSE
    /\ declined = 0
    /\ fatal = 0
    /\ all_ok = TRUE
    /\ enough_ram = "unknown"
    /\ swap_result = "none"
    /\ cert_due = "unknown"
    /\ prompted = FALSE
    /\ returned_names = {}
    /\ keygen_ret = -1
    /\ deploy_res = -1
    /\ install_res = -1
    /\ restarted = FALSE
    /\ polled = "none"
    /\ last_attempt = [kind |-> "none", restarted |-> FALSE, polled |-> "none"]
    /\ configure_ret = -1
    /\ port_open = "unknown"
    /\ port_answer = "none"
    /\ cert_ready = "unknown"
    /\ ram_declined = FALSE
    /\ fatal_category = "none"
    /\ renew_outcome = "none"

\* the App variables while no command is modelled
AppIdle ==
    /\ cmd = "none"
    /\ noninteractive = FALSE
    /\ args_yes = FALSE
    /\ attempts = 3
    /\ args_email = "none"
    /\ args_force = FALSE
    /\ disk_config = AbsentConfig
    /\ AppStart

\* what a status query can give: an exception, no output, or output lines in
\* which the texts the two loops search for are present or not
OutputFeatures == {"outcome_success", "result_running", "ejbca_ear_ok"}
NoOutput == [raised |-> FALSE, empty |-> TRUE, feats |-> {}]
JbossOutputs ==
    {[raised |-> TRUE, empty |-> TRUE, feats |-> {}], NoOutput}
        \cup {[raised |-> FALSE, empty |-> FALSE, feats |-> f] : f \in SUBSET OutputFeatures}

\* the wait variables while no wait call is modelled
WaitIdle ==
    /\ wait_kind = "none"
    /\ wait_pc = "idle"
    /\ wait_i = 0
    /\ jboss_works = FALSE
    /\ wait_out = NoOutput
    /\ queries = 0
    /\ sleeps = 0
    /\ seen_healthy = FALSE

\* the memory variables while no memory stage is modelled
MemIdle ==
    /\ virt_mem = 0
    /\ swap_mem = 0
    /\ mem_pc = "idle"
    /\ mem_enough = "unknown"

\* the key generation variables while no key set is generated
KeyIdle ==
    /\ retry_attempts = 3
    /\ key_pc = "idle"
    /\ key_idx = 1
    /\ key_try = 0
    /\ key_ret = -1
    /\ key_cmds = <<>>
    /\ key_result = -1

\* the processes that may run the tool on one host
Procs == {1, 2}

\* the check_pid variables while no check_pid call is modelled
PidIdle ==
    /\ lock_holder = 0
    /\ pid_pc = [p \in Procs |-> "idle"]
    /\ attempt_ctr = [p \in Procs |-> 0]
    /\ args_pidlock = [p \in Procs |-> -1]

(***************************************************************************)
(* The wrappers that call cli_cmd, and the arguments each passes.          *)
(***************************************************************************)
Callers == {"ant_deploy", "ant_install", "jboss_cmd", "pkcs11_cmd"}

\* on_out argument: the callback's name, or "none"
on_out(c) ==
    CASE c = "ant_install" -> "ant_install_answer"
      [] c = "pkcs11_cmd"  -> "pkcs11_answer"
      [] OTHER             -> "none"

\* on_err argument
on_err(c) == IF c = "pkcs11_cmd" THEN "pkcs11_answer" ELSE "none"

\* ant_answer argument
ant_answer(c) == c \in {"ant_deploy", "ant_install"}

\* log_obj argument: a file name, an open log object of the caller's, or None
log_obj(c) ==
    CASE c \in {"ant_deploy", "ant_install"} -> "filename"
      [] c = "jboss_cmd"                     -> "object"
      [] OTHER                               -> "none"

(***************************************************************************)
(* The response rules.  Each gives the sequence of texts fed for one line. *)
(***************************************************************************)
\* ant_install_answer with the password rules as independent ifs instead of
\* one if / elif chain: a line naming two stores is answered twice.
ant_install_answer_ifs(line) ==
    (IF Contains(line, "truststore with the CA certificate for https")
     THEN <<"java_pass">> ELSE <<>>)
    \o (IF Contains(line, "keystore with the TLS key for https")
        THEN <<"http_pass">> ELSE <<>>)
    \o (IF Contains(line, "the superadmin password") THEN <<"superadmin_pass">> ELSE <<>>)
    \o (IF Contains(line, "password CA token password") THEN <<"newline">>
        ELSE IF StartsWith(line, "Please enter") THEN <<"newline">>
        ELSE IF StartsWith(line, "[input] Please enter") THEN <<"newline">>
        ELSE <<>>)

\* Ejbca.ant_install_answer: an if / elif chain
ant_install_answer(line) ==
    IF Contains(line, "truststore with the CA certificate for https") THEN <<"java_pass">>
    ELSE IF Contains(line, "keystore with the TLS key for https") THEN <<"http_pass">>
    ELSE IF Contains(line, "the superadmin password") THEN <<"superadmin_pass">>
    ELSE IF Contains(line, "password CA token password") THEN <<"newline">>
    ELSE IF StartsWith(line, "Please enter") THEN <<"newline">>
    ELSE IF StartsWith(line, "[input] Please enter") THEN <<"newline">>
    ELSE <<>>

\* Ejbca.pkcs11_answer
pkcs11_answer(line) ==
    IF Contains(line, "Password:") THEN <<"0000">> ELSE <<>>

\* The default rules of cli_cmd's main loop
default_answer(line) ==
    IF StartsWith(line, "Please enter") THEN <<"newline">>
    ELSE IF StartsWith(line, "[input] Please enter") THEN <<"newline">>
    ELSE <<>>

Callback(name, line) ==
    CASE name = "ant_install_answer" -> ant_install_answer(line)
      [] name = "pkcs11_answer"      -> pkcs11_answer(line)
      [] OTHER                       -> <<>>

\* a main loop that applies the default rules after the callback as well
LoopOutResponses_DefaultsToo(c, line) ==
    (IF on_out(c) # "none" THEN Callback(on_out(c), line) ELSE <<>>)
    \o (IF ant_answer(c) THEN default_answer(line) ELSE <<>>)

\* What the main loop feeds for an output line
LoopOutResponses(c, line) ==
    IF on_out(c) # "none" THEN Callback(on_out(c), line)
    ELSE IF ant_answer(c) THEN default_answer(line)
    ELSE <<>>

\* What the drain after the exit feeds for an output line
DrainOutResponses(c, line) ==
    IF on_out(c) # "none" THEN Callback(on_out(c), line) ELSE <<>>

\* What is fed for an error line (main loop and drain alike)
ErrResponses(c, line) ==
    IF on_err(c) # "none" THEN Callback(on_err(c), line) ELSE <<>>

\* feeder.feed calls for `line`, stamped with the state of the child process
\* and of the driver at the time of the write.
Feeds(resps, line, phase) ==
    [i \in 1..Len(resps) |->
        [line |-> line.id, resp |-> resps[i], phase |-> phase,
         alive |-> proc = "running", observed_exit |-> returncode # -1,
         logged |-> \E k \in DOMAIN log' : log'[k] = line.id]]

\* a log that receives the lines of stdout only
LogWrite_StdoutOnly(line) ==
    IF log_obj(caller) # "none" /\ line.stream = "stdout" THEN Append(log, line.id) ELSE log

\* log.write(line); log.flush() when a log is attached
LogWrite(line) == IF log_obj(caller) # "none" THEN Append(log, line.id) ELSE log

\* how the handling of one line can end once the line is accumulated:
\* normally, with log.write raising, or with the callback raising
Raises(has_callback) ==
    {"none"} \cup (IF log_obj(caller) # "none" THEN {"log"} ELSE {})
             \cup (IF has_callback THEN {"callback"} ELSE {})

\* log.write(line); log.flush(); then the response rules; an exception leaves
\* the try block for the finally clause
Handle(line, resps, has_callback, phase, next_cpc) ==
    \E r \in Raises(has_callback) :
        /\ log' = IF r = "log" THEN log ELSE LogWrite(line)
        /\ fed' = IF r = "none" THEN fed \o Feeds(resps, line, phase) ELSE fed
        /\ raised' = r
        /\ cpc' = IF r = "none" THEN next_cpc ELSE "finally"

(***************************************************************************)
(* The child process.                                                      *)
(***************************************************************************)
ExitStatuses == {0, 1}

\* All scripts the child may run: up to MaxLines lines, each on a stream.
ScriptLines == [stream : Streams, kind : LineKinds]
Scripts == UNION {[1..n -> ScriptLines] : n \in 0..MaxLines}

LineAt(i) == [id |-> i, stream |-> script[i].stream, kind |-> script[i].kind]

\* run(cmd, async=True): the process appears in p.commands
ProcSpawn ==
    /\ proc = "not_started"
    /\ proc' = "running"
    /\ UNCHANGED <<caller, script, written, exit_status, stdout_buf, stderr_buf,
                   returncode, cpc, out, err, out_acc, err_acc, ret_code, log,
                   log_closed, fed, drained, feeder_closed>>
    /\ UNCHANGED <<appVars, pidVars, raised>>

\* the child writes its next line; the Capture of that stream buffers it
ChildWrite ==
    /\ proc = "running"
    /\ written < Len(script)
    /\ written' = written + 1
    /\ IF script[written + 1].stream = "stdout"
       THEN /\ stdout_buf' = Append(stdout_buf, LineAt(written + 1))
            /\ UNCHANGED stderr_buf
       ELSE /\ stderr_buf' = Append(stderr_buf, LineAt(written + 1))
            /\ UNCHANGED stdout_buf
    /\ UNCHANGED <<caller, script, proc, exit_status, returncode, cpc, out, err,
                   out_acc, err_acc, ret_code, log, log_closed, fed, drained, feeder_closed>>
    /\ UNCHANGED <<appVars, pidVars, raised>>

\* the child exits after its last line
ChildExit ==
    /\ proc = "running"
    /\ written = Len(script)
    /\ \E st \in ExitStatuses : exit_status' = st
    /\ proc' = "exited"
    /\ UNCHANGED <<caller, script, written, stdout_buf, stderr_buf, returncode,
                   cpc, out, err, out_acc, err_acc, ret_code, log, log_closed,
                   fed, drained, feeder_closed>>
    /\ UNCHANGED <<appVars, pidVars, raised>>

(***************************************************************************)
(* Ejbca.cli_cmd, one action per step between two points where the child   *)
(* can be seen to act.                                                     *)
(***************************************************************************)
\* if log_obj is not None: a file name is opened (this can raise, before the
\* try block is entered), a log object is taken as it is
LogSetup ==
    /\ cpc = "log_setup"
    /\ \E ok \in (IF log_obj(caller) = "filename" THEN BOOLEAN ELSE {TRUE}) :
          /\ cpc' = IF ok THEN "wait_commands" ELSE "raised"
          /\ raised' = IF ok THEN "none" ELSE "setup"
    /\ UNCHANGED <<caller, script, written, proc, exit_status, stdout_buf,
                   stderr_buf, returncode, out, err, out_acc, err_acc, ret_code,
                   log, log_closed, fed, drained, feeder_closed>>
    /\ UNCHANGED <<appVars, pidVars>>

\* while len(p.commands) == 0: time.sleep(0.15)
WaitCommands ==
    /\ cpc = "wait_commands"
    /\ proc # "not_started"
    /\ cpc' = "loop"
    /\ UNCHANGED <<caller, script, written, proc, exit_status, stdout_buf,
                   stderr_buf, returncode, out, err, out_acc, err_acc, ret_code,
                   log, log_closed, fed, drained, feeder_closed>>
    /\ UNCHANGED <<appVars, pidVars, raised>>

\* Capture.readline(): the next buffered line, or nothing
ReadLine(buf) == IF buf = <<>> THEN NoLine ELSE Head(buf)
AfterReadLine(buf) == IF buf = <<>> THEN buf ELSE Tail(buf)

\* while p.commands[0].returncode is None: out = p.stdout.readline()
\* and, once the exit was seen, ret_code = p.commands[0].returncode
LoopReadOut ==
    /\ cpc = "loop"
    /\ IF returncode = -1
       THEN /\ out' = ReadLine(stdout_buf)
            /\ stdout_buf' = AfterReadLine(stdout_buf)
            /\ cpc' = "read_err"
            /\ UNCHANGED ret_code
       ELSE /\ ret_code' = returncode
            /\ cpc' = "drain_out"
            /\ UNCHANGED <<out, stdout_buf>>
    /\ UNCHANGED <<caller, script, written, proc, exit_status, stderr_buf,
                   returncode, err, out_acc, err_acc, log, log_closed, fed, drained,
                   feeder_closed>>
    /\ UNCHANGED <<appVars, pidVars, raised>>

\* err = p.stderr.readline()
LoopReadErr ==
    /\ cpc = "read_err"
    /\ err' = ReadLine(stderr_buf)
    /\ stderr_buf' = AfterReadLine(stderr_buf)
    /\ cpc' = "handle_out"
    /\ UNCHANGED <<caller, script, written, proc, exit_status, stdout_buf,
                   returncode, out, out_acc, err_acc, ret_code, log, log_closed,
                   fed, drained, feeder_closed>>
    /\ UNCHANGED <<appVars, pidVars, raised>>

\* if out is not None and len(out) > 0: accumulate, log, respond
LoopHandleOut ==
    /\ cpc = "handle_out"
    /\ IF out # NoLine
       THEN /\ out_acc' = Append(out_acc, out)
            /\ Handle(out, LoopOutResponses(caller, out), on_out(caller) # "none",
                      "loop", "handle_err")
       ELSE /\ cpc' = "handle_err"
            /\ UNCHANGED <<out_acc, log, fed, raised>>
    /\ UNCHANGED <<caller, script, written, proc, exit_status, stdout_buf,
                   stderr_buf, returncode, out, err, err_acc, ret_code,
                   log_closed, drained, feeder_closed>>
    /\ UNCHANGED <<appVars, pidVars>>

\* if err is not None and len(err) > 0: accumulate, log, respond
LoopHandleErr ==
    /\ cpc = "handle_err"
    /\ IF err # NoLine
       THEN /\ err_acc' = Append(err_acc, err)
            /\ Handle(err, ErrResponses(caller, err), on_err(caller) # "none",
                      "loop", "poll")
       ELSE /\ cpc' = "poll"
            /\ UNCHANGED <<err_acc, log, fed, raised>>
    /\ UNCHANGED <<caller, script, written, proc, exit_status, stdout_buf,
                   stderr_buf, returncode, out, err, out_acc, ret_code,
                   log_closed, drained, feeder_closed>>
    /\ UNCHANGED <<appVars, pidVars>>

\* p.commands[0].poll(); time.sleep(0.01)
LoopPoll ==
    /\ cpc = "poll"
    /\ returncode' = IF proc = "exited" THEN exit_status ELSE -1
    /\ cpc' = "loop"
    /\ UNCHANGED <<caller, script, written, proc, exit_status, stdout_buf,
                   stderr_buf, out, err, out_acc, err_acc, ret_code, log,
                   log_closed, fed, drained, feeder_closed>>
    /\ UNCHANGED <<appVars, pidVars, raised>>

\* rest_out = p.stdout.readlines(); for out in rest_out: ...   (one line a step)
DrainOut ==
    /\ cpc = "drain_out"
    /\ IF stdout_buf # <<>>
       THEN /\ out' = Head(stdout_buf)
            /\ stdout_buf' = Tail(stdout_buf)
            /\ out_acc' = Append(out_acc, Head(stdout_buf))
            /\ Handle(Head(stdout_buf), DrainOutResponses(caller, Head(stdout_buf)),
                      on_out(caller) # "none", "drain", "drain_out")
            /\ drained' = drained \cup {Head(stdout_buf).id}
       ELSE /\ cpc' = "drain_err"
            /\ UNCHANGED <<out, stdout_buf, out_acc, log, fed, drained, raised>>
    /\ UNCHANGED <<caller, script, written, proc, exit_status, stderr_buf,
                   returncode, err, err_acc, ret_code, log_closed, feeder_closed>>
    /\ UNCHANGED <<appVars, pidVars>>

\* cli_cmd without the collection of the rest of stderr after the exit
DrainErr_NoCollect ==
    /\ cpc = "drain_err"
    /\ cpc' = "finally"
    /\ UNCHANGED <<caller, script, written, proc, exit_status, stdout_buf,
                   stderr_buf, returncode, out, err, out_acc, err_acc, ret_code,
                   log, log_closed, fed, drained, feeder_closed>>
    /\ UNCHANGED <<appVars, pidVars, raised>>

\* rest_err = p.stderr.readlines(); for err in rest_err: ...   (one line a step)
DrainErr ==
    /\ cpc = "drain_err"
    /\ IF stderr_buf # <<>>
       THEN /\ err' = Head(stderr_buf)
            /\ stderr_buf' = Tail(stderr_buf)
            /\ err_acc' = Append(err_acc, Head(stderr_buf))
            /\ Handle(Head(stderr_buf), ErrResponses(caller, Head(stderr_buf)),
                      on_err(caller) # "none", "drain", "drain_err")
            /\ drained' = drained \cup {Head(stderr_buf).id}
       ELSE /\ cpc' = "finally"
            /\ UNCHANGED <<err, stderr_buf, err_acc, log, fed, drained, raised>>
    /\ UNCHANGED <<caller, script, written, proc, exit_status, stdout_buf,
                   returncode, out, out_acc, ret_code, log_closed, feeder_closed>>
    /\ UNCHANGED <<appVars, pidVars>>

\* return ret_code, out_acc, err_acc through finally: feeder.close(); if close_log: log.close()
Finally ==
    /\ cpc = "finally"
    /\ feeder_closed' = TRUE
    /\ log_closed' = (log_obj(caller) = "filename")
    /\ cpc' = IF raised = "none" THEN "returned" ELSE "raised"
    /\ UNCHANGED <<caller, script, written, proc, exit_status, stdout_buf,
                   stderr_buf, returncode, out, err, out_acc, err_acc, ret_code,
                   log, fed, drained>>
    /\ UNCHANGED <<appVars, pidVars, raised>>

CliInit ==
    /\ caller \in Callers
    /\ script \in Scripts
    /\ written = 0
    /\ proc = "not_started"
    /\ exit_status = -1
    /\ stdout_buf = <<>>
    /\ stderr_buf = <<>>
    /\ returncode = -1
    /\ cpc = "log_setup"
    /\ out = NoLine
    /\ err = NoLine
    /\ out_acc = <<>>
    /\ err_acc = <<>>
    /\ ret_code = 1
    /\ log = <<>>
    /\ log_closed = FALSE
    /\ fed = <<>>
    /\ drained = {}
    /\ feeder_closed = FALSE
    /\ raised = "none"
    /\ AppIdle
    /\ PidIdle
    /\ WaitIdle
    /\ MemIdle
    /\ KeyIdle

CliNext ==
    \/ LogSetup
    \/ ProcSpawn
    \/ ChildWrite
    \/ ChildExit
    \/ WaitCommands
    \/ LoopReadOut
    \/ LoopReadErr
    \/ LoopHandleOut
    \/ LoopHandleErr
    \/ LoopPoll
    \/ DrainOut
    \/ DrainErr
    \/ Finally

SpecCli == CliInit /\ [][CliNext]_vars

(***************************************************************************)
(* Properties of cli_cmd.                                                  *)
(***************************************************************************)
\* The lines the child has written on a stream, in the order written
WrittenOn(stream) ==
    SelectSeq([i \in 1..written |-> LineAt(i)], LAMBDA l : l.stream = stream)

\* How many feeder.feed calls answered the line with this id
NumFeeds(id) == Cardinality({i \in DOMAIN fed : fed[i].line = id})

\* Whether a line matches a trigger of a callback / of the default rules,
\* read off the rule tables (not off what the rules feed)
CallbackTriggers(name) ==
    CASE name = "ant_install_answer" ->
            [phrases |-> {"truststore with the CA certificate for https",
                          "keystore with the TLS key for https",
                          "the superadmin password",
                          "password CA token password"},
             prefixes |-> {"Please enter", "[input] Please enter"}]
      [] name = "pkcs11_answer" -> [phrases |-> {"Password:"}, prefixes |-> {}]
      [] OTHER -> [phrases |-> {}, prefixes |-> {}]

DefaultTriggers == [phrases |-> {}, prefixes |-> {"Please enter", "[input] Please enter"}]

MatchesTriggers(line, t) ==
    \/ Phrases(line.kind) \cap t.phrases # {}
    \/ Prefix(line.kind) \in t.prefixes

\* the rules that apply to the output lines of a call by wrapper c
MatchesOutRule(c, line) ==
    IF on_out(c) # "none" THEN MatchesTriggers(line, CallbackTriggers(on_out(c)))
    ELSE ant_answer(c) /\ MatchesTriggers(line, DefaultTriggers)

\* C1 (as claimed): no feeder.feed call is made after the child process has
\* exited: every write to the input channel finds the process alive.
C1_NoFeedAfterExit == \A i \in DOMAIN fed : fed[i].alive

\* C2: when cli_cmd returns, out_acc holds exactly the lines the child wrote
\* to stdout and err_acc exactly those it wrote to stderr, each once and in
\* the order written, for every interleaving and also for lines that were
\* still buffered when the exit was seen.
C2_AllLinesReturned ==
    cpc = "returned" =>
        /\ written = Len(script)
        /\ out_acc = WrittenOn("stdout")
        /\ err_acc = WrittenOn("stderr")

\* C2 witness: a call has returned with lines of both streams, one of them
\* collected only after the exit was seen.
C2_Witness ==
    /\ cpc = "returned"
    /\ out_acc # <<>>
    /\ err_acc # <<>>
    /\ drained # {}

InitDomainLimit == 3
\* the attempts of the deploy and of the install loop of Ejbca.configure
DeployAttempts == 5
InstallAttempts == 3

\* --attempts ranges over 1..MaxAttempts
MaxAttempts == 4
\* the operator asks le_check_port for at most MaxPortRetries further tests
MaxPortRetries == 1
\* no run calls the domain operation more often than this
DomainCallCap == Max(MaxAttempts, InitDomainLimit) + 2

Op(name, line) == [op |-> name, line |-> line]

\* return self.return_code(code)
Return(code) ==
    /\ last_result' = code
    /\ outcome' = "returned"
    /\ pc' = "done"

\* an exception leaves the handler: return_code is not called
Escape ==
    /\ outcome' = "raised"
    /\ pc' = "done"
    /\ UNCHANGED last_result

Goto(label) ==
    /\ pc' = label
    /\ UNCHANGED <<last_result, outcome>>

\* a variant in which the prompt that supports the unattended mode goes on to
\* raw_input when --yes is not set
ask_reaches_raw_input_NeedsYes(support_non_interactive) ==
    /\ ~(noninteractive /\ ~support_non_interactive)
    /\ ~(noninteractive /\ support_non_interactive /\ args_yes)

\* App.ask_proceed_quit: whether the call gets as far as raw_input, past
\*   if self.noninteractive and not support_non_interactive: raise ...
\*   if self.noninteractive and support_non_interactive: (return ... or raise ...)
ask_reaches_raw_input(support_non_interactive) ==
    /\ ~(noninteractive /\ ~support_non_interactive)
    /\ ~(noninteractive /\ support_non_interactive)

\* App.ask_for_email: whether the call gets as far as raw_input, past
\*   if self.args.email is not None: (return ... or raise ...)
\*   if self.noninteractive: return ''
email_reaches_raw_input ==
    /\ args_email = "none"
    /\ ~noninteractive

\* App.ask_proceed_quit: the possible results ("raise": errors.Error)
AskOutcomes(support_non_interactive) ==
    IF noninteractive
    THEN IF support_non_interactive /\ args_yes THEN {"yes"} ELSE {"raise"}
    ELSE {"yes", "no", "quit"}

\* Core.write_configuration(cfg): the file then holds cfg; nothing is kept of
\* what it held before
write_configuration(cfg) == disk_config' = cfg

\* Core.backup_configuration(cfg): a copy of cfg is saved aside
backup_configuration(cfg) == backups' = backups \cup {cfg}

\* if not self.check_root() or not self.check_pid(): return self.return_code(1)
Guards ==
    /\ pc = "start"
    /\ \E g \in {"ok", "not_root", "locked"} :
          /\ IF g = "ok" THEN Goto("read_config") ELSE Return(1)
          /\ all_ok' = (g = "ok")
          /\ fatal_category' = (CASE g = "locked"   -> "lock"
                                   [] g = "not_root" -> "generic"
                                   [] OTHER          -> "none")
    /\ UNCHANGED <<argVars, diskVars, ops, config, new_config, domVars,
                   port_retries, ejbcaVars, declined, fatal, enroll_new_cert, obsVars, cliVars, pidVars, keygenVars, cfgVars, portVars, renewVars,
                   declVars, waitVars, memVars, keyVars>>

\* config = Core.read_configuration(); if config is not None and config.has_nonempty_config():
InitReadConfig ==
    /\ cmd = "init"
    /\ pc = "read_config"
    /\ config' = disk_config
    /\ IF has_nonempty_config(disk_config) THEN Goto("confirm1") ELSE Goto("email")
    /\ UNCHANGED <<argVars, diskVars, ops, new_config, domVars, port_retries,
                   ejbcaVars, histVars, enroll_new_cert, obsVars, cliVars, pidVars, extVars>>

\* should_continue = self.ask_proceed(support_non_interactive=True)   (first)
InitConfirm1 ==
    /\ cmd = "init"
    /\ pc = "confirm1"
    /\ prompted' = (prompted \/ ask_reaches_raw_input(TRUE))
    /\ \E a \in AskOutcomes(TRUE) :
          CASE a = "yes"   -> Goto("confirm2") /\ UNCHANGED declined
            [] a = "raise" -> Escape /\ UNCHANGED declined
            [] OTHER       -> Return(1) /\ declined' = 1
    /\ UNCHANGED <<argVars, diskVars, ops, config, new_config, domVars,
                   port_retries, ejbcaVars, fatal, all_ok, enroll_new_cert, enough_ram, swap_result, cert_due,
                   returned_names, cliVars, pidVars, extVars>>

\* a variant that saves the old record before it asks the second time
InitConfirm2_BackupFirst ==
    /\ cmd = "init"
    /\ pc = "confirm2"
    /\ prompted' = (prompted \/ ask_reaches_raw_input(TRUE))
    /\ ops' = ops \cup {Op("backup_configuration", 119)}
    /\ backup_configuration(config)
    /\ \E a \in AskOutcomes(TRUE) :
          CASE a = "yes"   -> Goto("email") /\ UNCHANGED declined
            [] a = "raise" -> Escape /\ UNCHANGED declined
            [] OTHER       -> Return(1) /\ declined' = 2
    /\ UNCHANGED <<argVars, disk_config, config, new_config, domVars,
                   port_retries, ejbcaVars, fatal, all_ok, enroll_new_cert, enough_ram, swap_result, cert_due,
                   returned_names, cliVars, pidVars, extVars>>

\* should_continue = self.ask_proceed(support_non_interactive=True)   (second)
InitConfirm2 ==
    /\ cmd = "init"
    /\ pc = "confirm2"
    /\ prompted' = (prompted \/ ask_reaches_raw_input(TRUE))
    /\ \E a \in AskOutcomes(TRUE) :
          CASE a = "yes"   -> Goto("backup") /\ UNCHANGED declined
            [] a = "raise" -> Escape /\ UNCHANGED declined
            [] OTHER       -> Return(1) /\ declined' = 2
    /\ UNCHANGED <<argVars, diskVars, ops, config, new_config, domVars,
                   port_retries, ejbcaVars, fatal, all_ok, enroll_new_cert, enough_ram, swap_result, cert_due,
                   returned_names, cliVars, pidVars, extVars>>

\* fname = Core.backup_configuration(config)
InitBackup ==
    /\ cmd = "init"
    /\ pc = "backup"
    /\ ops' = ops \cup {Op("backup_configuration", 119)}
    /\ \E ok \in BOOLEAN :
          IF ok
          THEN Goto("email") /\ backup_configuration(config) /\ UNCHANGED all_ok
          ELSE Escape /\ UNCHANGED backups /\ all_ok' = FALSE
    /\ UNCHANGED <<argVars, disk_config, config, new_config, domVars,
                   port_retries, ejbcaVars, declined, fatal, enroll_new_cert, obsVars, cliVars, pidVars, extVars>>

\* email = self.ask_for_email(): an invalid --email raises ValueError
InitEmail ==
    /\ cmd = "init"
    /\ pc = "email"
    /\ prompted' = (prompted \/ email_reaches_raw_input)
    /\ IF args_email = "invalid" THEN Escape ELSE Goto("test_env")
    /\ UNCHANGED <<argVars, diskVars, ops, config, new_config, domVars,
                   port_retries, ejbcaVars, histVars, enroll_new_cert, enough_ram, swap_result, cert_due,
                   returned_names, cliVars, pidVars, extVars>>

\* if not ejbca.test_environment(): ...; return self.return_code(1)
InitTestEnv ==
    /\ cmd = "init"
    /\ pc = "test_env"
    /\ ops' = ops \cup {Op("test_environment", 132)}
    /\ \E ok \in BOOLEAN :
          IF ok THEN Goto("ram") /\ UNCHANGED <<fatal, all_ok>>
          ELSE Return(1) /\ fatal' = 2 /\ all_ok' = FALSE
    /\ UNCHANGED <<argVars, diskVars, config, new_config, domVars, port_retries,
                   ejbcaVars, declined, enroll_new_cert, obsVars, cliVars, pidVars, extVars>>

\* if not syscfg.is_enough_ram(): ...
InitRam ==
    /\ cmd = "init"
    /\ pc = "ram"
    /\ ops' = ops \cup {Op("is_enough_ram", 139)}
    /\ \E enough \in BOOLEAN :
          /\ IF enough THEN Goto("port") ELSE Goto("ram_confirm")
          /\ all_ok' = (all_ok /\ enough)
          /\ enough_ram' = (IF enough THEN "yes" ELSE "no")
    /\ UNCHANGED <<argVars, diskVars, config, new_config, domVars, port_retries,
                   ejbcaVars, declined, fatal, enroll_new_cert, swap_result,
                   cert_due, prompted, returned_names, cliVars, pidVars, extVars>>

\* a variant that installs the swap file whatever the operator answers
InitRamConfirm_DeclineGoesOn ==
    /\ cmd = "init"
    /\ pc = "ram_confirm"
    /\ prompted' = (prompted \/ ask_reaches_raw_input(TRUE))
    /\ \E a \in AskOutcomes(TRUE) :
          CASE a = "yes"   -> Goto("create_swap") /\ UNCHANGED ram_declined
            [] a = "raise" -> Goto("except") /\ UNCHANGED ram_declined
            [] OTHER       -> Goto("create_swap") /\ ram_declined' = TRUE
    /\ UNCHANGED <<argVars, diskVars, ops, config, new_config, domVars,
                   port_retries, ejbcaVars, histVars, enroll_new_cert, enough_ram,
                   swap_result, cert_due, returned_names, cliVars, pidVars,
                   keygenVars, cfgVars, portVars, renewVars, waitVars, catVars, memVars, keyVars>>

\* should_continue = self.ask_proceed(support_non_interactive=True), inside the try
InitRamConfirm ==
    /\ cmd = "init"
    /\ pc = "ram_confirm"
    /\ prompted' = (prompted \/ ask_reaches_raw_input(TRUE))
    /\ \E a \in AskOutcomes(TRUE) :
          CASE a = "yes"   -> Goto("create_swap") /\ UNCHANGED ram_declined
            [] a = "raise" -> Goto("except") /\ UNCHANGED ram_declined
            [] OTHER       -> Return(1) /\ ram_declined' = TRUE
    /\ UNCHANGED <<argVars, diskVars, ops, config, new_config, domVars,
                   port_retries, ejbcaVars, histVars, enroll_new_cert, enough_ram,
                   swap_result, cert_due, returned_names, cliVars, pidVars,
                   keygenVars, cfgVars, portVars, renewVars, waitVars, catVars, memVars, keyVars>>

\* Sizes on disk are counted in units of 128 MB.
\* size_required = desired_size+1024*1024*128
SwapMargin == 1
\* the sizes get_swap_size_needed may ask for (1 GB .. 2 GB), and the free space
DesiredSizes == {8, 12, 16}
FreeSpaces == {0, 8, 9, 12, 13, 16, 17}

\* SysConfig.create_swap: what it returns, given the free space, the size asked
\* for and the exit status of the swap command.  "no_space" is the bare -1,
\* the others are the triple (p.returncode, fname, desired_size)
create_swap(free, desired_size, swap_rc) ==
    IF free < desired_size + SwapMargin THEN "no_space"
    ELSE IF swap_rc = 0 THEN "ok"
    ELSE "cmd_failed"

\* code, swap_name, swap_size = syscfg.create_swap()
\* "no_space": the unpacking of the bare -1 raises TypeError
InitCreateSwap ==
    /\ cmd = "init"
    /\ pc = "create_swap"
    /\ \E free \in FreeSpaces, desired_size \in DesiredSizes, swap_rc \in {0, 1} :
          LET r == create_swap(free, desired_size, swap_rc) IN
          /\ swap_result' = r
          /\ ops' = ops \cup {Op("create_swap", 149)} \cup
                        (IF r = "no_space" THEN {} ELSE {Op("swap_command", 149)})
          /\ CASE r = "ok"         -> Goto("ram_recheck") /\ UNCHANGED all_ok
               [] r = "cmd_failed" -> Return(1) /\ all_ok' = FALSE
               [] OTHER            -> Goto("except") /\ all_ok' = FALSE
          /\ fatal_category' = IF r = "cmd_failed" THEN "memory" ELSE "none"
    /\ UNCHANGED <<argVars, diskVars, config, new_config, domVars, port_retries,
                   ejbcaVars, declined, fatal, enroll_new_cert, enough_ram,
                   cert_due, prompted, returned_names, cliVars, pidVars,
                   keygenVars, cfgVars, portVars, renewVars, declVars, waitVars,
                   memVars, keyVars>>

\* a variant that goes on after the second check whatever it gave
InitRamRecheck_GoesOn ==
    /\ cmd = "init"
    /\ pc = "ram_recheck"
    /\ ops' = ops \cup {Op("is_enough_ram", 157)}
    /\ \E enough \in BOOLEAN :
          /\ enough_ram' = (IF enough THEN "yes" ELSE "no")
          /\ all_ok' = (all_ok /\ enough)
          /\ Goto("port")
    /\ UNCHANGED <<argVars, diskVars, config, new_config, domVars, port_retries,
                   ejbcaVars, declined, fatal, enroll_new_cert, swap_result,
                   cert_due, prompted, returned_names, cliVars, pidVars, extVars>>

\* if not syscfg.is_enough_ram(): return self.return_code(1)    (recheck)
InitRamRecheck ==
    /\ cmd = "init"
    /\ pc = "ram_recheck"
    /\ ops' = ops \cup {Op("is_enough_ram", 157)}
    /\ \E enough \in BOOLEAN :
          /\ enough_ram' = (IF enough THEN "yes" ELSE "no")
          /\ IF enough
             THEN Goto("port") /\ UNCHANGED <<fatal, all_ok, fatal_category>>
             ELSE /\ Return(1) /\ fatal' = 3 /\ all_ok' = FALSE
                  /\ fatal_category' = "memory"
    /\ UNCHANGED <<argVars, diskVars, config, new_config, domVars, port_retries,
                   ejbcaVars, declined, enroll_new_cert, swap_result,
                   cert_due, prompted, returned_names, cliVars, pidVars, keygenVars, cfgVars, portVars, renewVars,
                   declVars, waitVars, memVars, keyVars>>

\* port_ok = self.le_check_port(critical=False): the first test of the port
InitPort ==
    /\ cmd = "init"
    /\ pc = "port"
    /\ ops' = ops \cup {Op("test_port_open", 163)}
    /\ \E ok \in BOOLEAN :
          /\ port_open' = IF ok THEN "open" ELSE "closed"
          /\ fatal_category' = IF ~ok /\ noninteractive THEN "port" ELSE "none"
          /\ IF ok THEN Goto("identity") /\ UNCHANGED <<fatal, all_ok>>
             ELSE IF noninteractive
                  THEN Return(10) /\ fatal' = 4 /\ all_ok' = FALSE
                  ELSE Goto("port_ask") /\ UNCHANGED fatal /\ all_ok' = FALSE
    /\ UNCHANGED <<argVars, diskVars, config, new_config, domVars, port_retries,
                   ejbcaVars, declined, enroll_new_cert, obsVars, cliVars, pidVars,
                   keygenVars, cfgVars, port_answer, renewVars, declVars, waitVars, memVars, keyVars>>

\* a variant in which the answer 'n' ends the command like 'q'
InitPortAsk_NoQuits ==
    /\ cmd = "init"
    /\ pc = "port_ask"
    /\ prompted' = (prompted \/ ask_reaches_raw_input(FALSE))
    /\ \E a \in {"yes", "no", "quit"} :
          /\ port_answer' = a
          /\ fatal_category' = IF a = "quit" THEN "port" ELSE "none"
          /\ CASE a = "no"   -> /\ Return(10) /\ fatal' = 4
                                /\ UNCHANGED <<ops, port_retries, port_open>>
               [] a = "quit" -> /\ Return(10) /\ fatal' = 4
                                /\ UNCHANGED <<ops, port_retries, port_open>>
               [] OTHER      ->
                     /\ port_retries < MaxPortRetries
                     /\ port_retries' = port_retries + 1
                     /\ ops' = ops \cup {Op("test_port_open", 163)}
                     /\ UNCHANGED fatal
                     /\ \E ok \in BOOLEAN :
                           /\ port_open' = IF ok THEN "open" ELSE "closed"
                           /\ IF ok THEN Goto("identity") ELSE Goto("port_ask")
    /\ UNCHANGED <<argVars, diskVars, config, new_config, domVars, ejbcaVars,
                   declined, all_ok, enroll_new_cert, enough_ram, swap_result, cert_due,
                   returned_names, cliVars, pidVars, keygenVars, cfgVars, renewVars, declVars, waitVars, memVars, keyVars>>

\* le_check_port: proceed_option = self.ask_proceed_quit('Do you want to try again? ...')
InitPortAsk ==
    /\ cmd = "init"
    /\ pc = "port_ask"
    /\ prompted' = (prompted \/ ask_reaches_raw_input(FALSE))
    /\ \E a \in {"yes", "no", "quit"} :
          /\ port_answer' = a
          /\ fatal_category' = IF a = "quit" THEN "port" ELSE "none"
          /\ CASE a = "no"   -> /\ Goto("identity")
                                /\ UNCHANGED <<ops, port_retries, fatal, port_open>>
               [] a = "quit" -> /\ Return(10) /\ fatal' = 4
                                /\ UNCHANGED <<ops, port_retries, port_open>>
               [] OTHER      ->
                     /\ port_retries < MaxPortRetries
                     /\ port_retries' = port_retries + 1
                     /\ ops' = ops \cup {Op("test_port_open", 163)}
                     /\ UNCHANGED fatal
                     /\ \E ok \in BOOLEAN :
                           /\ port_open' = IF ok THEN "open" ELSE "closed"
                           /\ IF ok THEN Goto("identity") ELSE Goto("port_ask")
    /\ UNCHANGED <<argVars, diskVars, config, new_config, domVars, ejbcaVars,
                   declined, all_ok, enroll_new_cert, enough_ram, swap_result, cert_due,
                   returned_names, cliVars, pidVars, keygenVars, cfgVars, renewVars, declVars, waitVars, memVars, keyVars>>

\* reg_svc.new_identity(id_dir=CONFIG_DIR, backup_dir=CONFIG_DIR_OLD)
InitIdentity ==
    /\ cmd = "init"
    /\ pc = "identity"
    /\ ops' = ops \cup {Op("new_identity", 170)}
    /\ \E ok \in BOOLEAN :
          IF ok THEN Goto("registration") /\ UNCHANGED <<fatal, all_ok>>
          ELSE Goto("except") /\ fatal' = 5 /\ all_ok' = FALSE
    /\ UNCHANGED <<argVars, diskVars, config, new_config, domVars, port_retries,
                   ejbcaVars, declined, enroll_new_cert, obsVars, cliVars, pidVars, extVars>>

\* new_config = reg_svc.new_registration(); new_config.ejbca_hostname_custom = False
InitRegistration ==
    /\ cmd = "init"
    /\ pc = "registration"
    /\ ops' = ops \cup {Op("new_registration", 173)}
    /\ \E ok \in BOOLEAN :
          IF ok
          THEN /\ Goto("domain_loop")
               /\ new_config' = [state |-> "full", reg |-> "new", domains |-> {},
                                 last_ipv4 |-> "none", hostname |-> "none"]
               /\ UNCHANGED <<fatal, all_ok>>
          ELSE Goto("except") /\ fatal' = 6 /\ all_ok' = FALSE /\ UNCHANGED new_config
    /\ UNCHANGED <<argVars, diskVars, config, domVars, port_retries, ejbcaVars,
                   declined, enroll_new_cert, obsVars, cliVars, pidVars, extVars>>

\* One pass of `while not domain_is_ok and domain_ctr < 3:` with its body:
\* new_domain() and refresh_domain(), which raise, give no names, or give names.
InitDomainLoop ==
    /\ cmd = "init"
    /\ pc = "domain_loop"
    /\ IF ~(~domain_is_ok /\ domain_ctr < InitDomainLimit)
       THEN /\ Goto("domain_check")
            /\ loop_over' = TRUE
            /\ UNCHANGED <<ops, new_config, domain_is_ok, domain_ctr, domain_calls,
                           retry_asked, retry_declined, all_ok,
                           prompted, returned_names>>
       ELSE /\ domain_calls < DomainCallCap
            /\ domain_calls' = domain_calls + 1
            /\ \E r \in {{"raise"}, {}} \cup DomainSets :
                  CASE r = {"raise"} ->
                          /\ ops' = ops \cup {Op("new_domain", 184)}
                          /\ domain_ctr' = domain_ctr + 1
                          /\ all_ok' = FALSE
                          /\ UNCHANGED <<new_config, domain_is_ok, returned_names>>
                          /\ IF noninteractive
                             THEN /\ IF domain_ctr + 1 >= attempts
                                     THEN Goto("domain_check") /\ loop_over' = TRUE
                                     ELSE Goto("domain_loop") /\ UNCHANGED loop_over
                                  /\ UNCHANGED <<retry_asked, retry_declined, prompted>>
                             ELSE /\ retry_asked' = retry_asked + 1
                                  /\ prompted' = (prompted \/ ask_reaches_raw_input(FALSE))
                                  /\ \E a \in AskOutcomes(FALSE) :
                                        IF a = "yes"
                                        THEN /\ Goto("domain_loop")
                                             /\ UNCHANGED <<loop_over, retry_declined>>
                                        ELSE /\ Goto("domain_check")
                                             /\ loop_over' = TRUE
                                             /\ retry_declined' = TRUE
                    [] r = {} ->
                          /\ ops' = ops \cup {Op("new_domain", 184), Op("refresh_domain", 185)}
                          /\ new_config' = [new_config EXCEPT !.domains = {}]
                          /\ all_ok' = FALSE
                          /\ Goto("domain_loop")
                          /\ returned_names' = {}
                          /\ UNCHANGED <<domain_is_ok, domain_ctr, retry_asked,
                                         retry_declined, loop_over, prompted>>
                    [] OTHER ->
                          /\ ops' = ops \cup {Op("new_domain", 184), Op("refresh_domain", 185)}
                          /\ new_config' = [new_config EXCEPT !.domains = r]
                          /\ domain_is_ok' = TRUE
                          /\ Goto("domain_loop")
                          /\ returned_names' = r
                          /\ UNCHANGED <<domain_ctr, retry_asked, retry_declined,
                                         loop_over, all_ok, prompted>>
    /\ UNCHANGED <<argVars, diskVars, config, port_retries, ejbcaVars, declined,
                   fatal, enroll_new_cert, enough_ram, swap_result, cert_due, cliVars, pidVars, extVars>>

\* a variant with domain_ignore set: the installation goes on without names
InitDomainCheck_Ignores ==
    /\ cmd = "init"
    /\ pc = "domain_check"
    /\ Goto("onboot_hook")
    /\ UNCHANGED fatal
    /\ UNCHANGED <<argVars, diskVars, ops, config, new_config, domVars,
                   port_retries, ejbcaVars, declined, all_ok, enroll_new_cert, obsVars, cliVars,
                   pidVars, extVars>>

\* if not domain_is_ok: ... 'installation aborted'; return self.return_code(1)
InitDomainCheck ==
    /\ cmd = "init"
    /\ pc = "domain_check"
    /\ IF domain_is_ok
       THEN Goto("onboot_hook") /\ UNCHANGED fatal
       ELSE Return(1) /\ fatal' = 7
    /\ UNCHANGED <<argVars, diskVars, ops, config, new_config, domVars,
                   port_retries, ejbcaVars, declined, all_ok, enroll_new_cert, obsVars, cliVars, pidVars, extVars>>

\* syscfg.install_onboot_check(): its return value (0, 1, 2) is not looked at
InitOnbootHook ==
    /\ cmd = "init"
    /\ pc = "onboot_hook"
    /\ ops' = ops \cup {Op("install_onboot_check", 217)}
    /\ \E r \in {"0", "1", "2", "raise"} :
          /\ IF r = "raise" THEN Goto("except") ELSE Goto("cron_hook")
          /\ all_ok' = (all_ok /\ r = "0")
    /\ UNCHANGED <<argVars, diskVars, config, new_config, domVars, port_retries,
                   ejbcaVars, declined, fatal, enroll_new_cert, obsVars, cliVars, pidVars, extVars>>

\* a variant that goes from the second hook straight to the token
\* reconfiguration, leaving out the write of the configuration
InitCronHook_SkipsWrite ==
    /\ cmd = "init"
    /\ pc = "cron_hook"
    /\ ops' = ops \cup {Op("install_cron_renew", 218)}
    /\ \E r \in {"0", "raise"} :
          /\ IF r = "raise" THEN Goto("except") ELSE Goto("softhsm")
          /\ all_ok' = (all_ok /\ r = "0")
    /\ UNCHANGED <<argVars, diskVars, config, new_config, domVars, port_retries,
                   ejbcaVars, declined, fatal, enroll_new_cert, obsVars, cliVars, pidVars, extVars>>

\* syscfg.install_cron_renew()
InitCronHook ==
    /\ cmd = "init"
    /\ pc = "cron_hook"
    /\ ops' = ops \cup {Op("install_cron_renew", 218)}
    /\ \E r \in {"0", "raise"} :
          /\ IF r = "raise" THEN Goto("except") ELSE Goto("write_config")
          /\ all_ok' = (all_ok /\ r = "0")
    /\ UNCHANGED <<argVars, diskVars, config, new_config, domVars, port_retries,
                   ejbcaVars, declined, fatal, enroll_new_cert, obsVars, cliVars, pidVars, extVars>>

\* conf_file = Core.write_configuration(new_config)
InitWriteConfig ==
    /\ cmd = "init"
    /\ pc = "write_config"
    /\ ops' = ops \cup {Op("write_configuration", 221)}
    /\ \E ok \in BOOLEAN :
          IF ok
          THEN Goto("softhsm") /\ write_configuration(new_config) /\ UNCHANGED all_ok
          ELSE Goto("except") /\ UNCHANGED disk_config /\ all_ok' = FALSE
    /\ UNCHANGED <<argVars, backups, config, new_config, domVars, port_retries,
                   ejbcaVars, declined, fatal, enroll_new_cert, obsVars, cliVars, pidVars, extVars>>

\* soft_config.backup_current_config_file() ... soft_config.init_token(user=ejbca.JBOSS_USER)
InitSoftHsm ==
    /\ cmd = "init"
    /\ pc = "softhsm"
    /\ ops' = ops \cup {Op("softhsm_reconfigure", 225)}
    /\ \E ok \in BOOLEAN :
          IF ok THEN Goto("cfg_prepare") /\ UNCHANGED <<fatal, all_ok>>
          ELSE Goto("except") /\ fatal' = 10 /\ all_ok' = FALSE
    /\ UNCHANGED <<argVars, diskVars, config, new_config, domVars, port_retries,
                   ejbcaVars, declined, enroll_new_cert, obsVars, cliVars, pidVars, extVars>>

\* what jboss_wait_after_start and jboss_wait_after_deploy can return: True
\* ("healthy") or, after the last query, False ("timeout")
PollResults == {"healthy", "timeout"}

\* the state an attempt of Ejbca.configure is started in
Attempt(kind, r, p) == [kind |-> kind, restarted |-> r, polled |-> p]

\* ejbca.configure(), steps 1 and 2: properties, passwords, JBoss clean-up,
\* jboss_restart() and the last jboss_reload(), whose jboss_wait_after_start()
\* is the last poll before the deploy loop; its result is not looked at
CfgPrepare ==
    /\ cmd = "init"
    /\ pc = "cfg_prepare"
    /\ ops' = ops \cup {Op("ejbca_prepare", 248)}
    /\ \E ok \in BOOLEAN :
          IF ok
          THEN /\ Goto("cfg_deploy")
               /\ restarted' = TRUE
               /\ polled' \in PollResults
               /\ UNCHANGED all_ok
          ELSE /\ Goto("except")
               /\ all_ok' = FALSE
               /\ UNCHANGED <<restarted, polled>>
    /\ UNCHANGED <<argVars, diskVars, config, new_config, domVars, port_retries,
                   ejbcaVars, declined, fatal, enroll_new_cert, obsVars, cliVars, pidVars,
                   keygenVars, deploy_res, install_res, last_attempt, configure_ret, portVars, renewVars, declVars, waitVars, catVars, memVars, keyVars>>

\* a variant whose deploy loop has no `break`: it goes round again after a zero
\* res while attempts are left
CfgDeploy_NoBreak ==
    /\ cmd = "init"
    /\ pc = "cfg_deploy"
    /\ deploy_i < DeployAttempts
    /\ ops' = ops \cup {Op("ant_deploy", 248)}
    /\ deploy_i' = deploy_i + 1
    /\ last_attempt' = Attempt("deploy", restarted, polled)
    /\ restarted' = FALSE
    /\ polled' = "none"
    /\ \E res \in {0, 1} :
          /\ ejbca_install_result' = res
          /\ deploy_res' = res
          /\ all_ok' = (all_ok /\ res = 0)
          /\ IF deploy_i + 1 < DeployAttempts
             THEN Goto("cfg_deploy") /\ UNCHANGED <<fatal, configure_ret>>
             ELSE IF res = 0
                  THEN Goto("cfg_install") /\ UNCHANGED <<fatal, configure_ret>>
                  ELSE Goto("check_install") /\ fatal' = 11 /\ configure_ret' = 2
    /\ UNCHANGED <<argVars, diskVars, config, new_config, domVars, port_retries,
                   install_i, declined, enroll_new_cert, obsVars, cliVars, pidVars,
                   keygenVars, install_res, portVars, renewVars, declVars, waitVars, catVars, memVars, keyVars>>

\* ejbca.configure(), step 3: one pass of `for i in range(0, 5)` around ant_deploy,
\* and `if self.ejbca_install_result != 0: return 2` after the last
CfgDeploy ==
    /\ cmd = "init"
    /\ pc = "cfg_deploy"
    /\ deploy_i < DeployAttempts
    /\ ops' = ops \cup {Op("ant_deploy", 248)}
    /\ deploy_i' = deploy_i + 1
    /\ last_attempt' = Attempt("deploy", restarted, polled)
    /\ restarted' = FALSE
    /\ polled' = "none"
    /\ \E res \in {0, 1} :
          /\ ejbca_install_result' = res
          /\ deploy_res' = res
          /\ all_ok' = (all_ok /\ res = 0)
          /\ IF res = 0 THEN Goto("cfg_install") /\ UNCHANGED <<fatal, configure_ret>>
             ELSE IF deploy_i + 1 = DeployAttempts
                  THEN Goto("check_install") /\ fatal' = 11 /\ configure_ret' = 2
                  ELSE Goto("cfg_deploy") /\ UNCHANGED <<fatal, configure_ret>>
    /\ UNCHANGED <<argVars, diskVars, config, new_config, domVars, port_retries,
                   install_i, declined, enroll_new_cert, obsVars, cliVars, pidVars,
                   keygenVars, install_res, portVars, renewVars, declVars, waitVars, catVars, memVars, keyVars>>

\* a variant whose install loop does not store res in ejbca_install_result
CfgInstall_KeepsResult ==
    /\ cmd = "init"
    /\ pc = "cfg_install"
    /\ install_i < InstallAttempts
    /\ ops' = ops \cup {Op("ant_install", 248)}
    /\ install_i' = install_i + 1
    /\ \E p \in PollResults : last_attempt' = Attempt("install", restarted, p)
    /\ restarted' = FALSE
    /\ polled' = "none"
    /\ \E res \in {0, 1} :
          /\ UNCHANGED ejbca_install_result
          /\ install_res' = res
          /\ all_ok' = (all_ok /\ res = 0)
          /\ IF res = 0 THEN Goto("cfg_finish") /\ UNCHANGED fatal
             ELSE IF install_i + 1 = InstallAttempts
                  THEN Goto("cfg_finish") /\ fatal' = 11
                  ELSE Goto("cfg_install") /\ UNCHANGED fatal
    /\ UNCHANGED <<argVars, diskVars, config, new_config, domVars, port_retries,
                   deploy_i, declined, enroll_new_cert, obsVars, cliVars, pidVars,
                   keygenVars, deploy_res, configure_ret, portVars, renewVars, declVars, waitVars, catVars, memVars, keyVars>>

\* ejbca.configure(), step 4: one pass of `for i in range(0, 3)` around
\* jboss_fix_privileges, jboss_wait_after_deploy (its result is not looked at)
\* and ant_install
CfgInstall ==
    /\ cmd = "init"
    /\ pc = "cfg_install"
    /\ install_i < InstallAttempts
    /\ ops' = ops \cup {Op("ant_install", 248)}
    /\ install_i' = install_i + 1
    /\ \E p \in PollResults : last_attempt' = Attempt("install", restarted, p)
    /\ restarted' = FALSE
    /\ polled' = "none"
    /\ \E res \in {0, 1} :
          /\ ejbca_install_result' = res
          /\ install_res' = res
          /\ all_ok' = (all_ok /\ res = 0)
          /\ IF res = 0 THEN Goto("cfg_finish") /\ UNCHANGED fatal
             ELSE IF install_i + 1 = InstallAttempts
                  THEN Goto("cfg_finish") /\ fatal' = 11
                  ELSE Goto("cfg_install") /\ UNCHANGED fatal
    /\ UNCHANGED <<argVars, diskVars, config, new_config, domVars, port_retries,
                   deploy_i, declined, enroll_new_cert, obsVars, cliVars, pidVars,
                   keygenVars, deploy_res, configure_ret, portVars, renewVars, declVars, waitVars, catVars, memVars, keyVars>>

\* ejbca.configure(): ant_client_tools(); jboss_fix_privileges(); jboss_reload(); return
CfgFinish ==
    /\ cmd = "init"
    /\ pc = "cfg_finish"
    /\ ops' = ops \cup {Op("ant_client_tools", 248)}
    /\ configure_ret' = ejbca_install_result
    /\ Goto("check_install")
    /\ UNCHANGED <<argVars, diskVars, config, new_config, domVars, port_retries,
                   ejbcaVars, histVars, enroll_new_cert, obsVars, cliVars, pidVars,
                   keygenVars, deploy_res, install_res, restarted, polled, last_attempt,
                   portVars, renewVars, declVars, waitVars, catVars, memVars, keyVars>>

\* a variant that goes on whatever ejbca_install_result is
InitCheckInstall_NoTest ==
    /\ cmd = "init"
    /\ pc = "check_install"
    /\ Goto("write_installed")
    /\ UNCHANGED <<argVars, diskVars, ops, config, new_config, domVars,
                   port_retries, ejbcaVars, histVars, enroll_new_cert, obsVars, cliVars, pidVars, extVars>>

\* if ejbca.ejbca_install_result != 0: ...; return self.return_code(1)
InitCheckInstall ==
    /\ cmd = "init"
    /\ pc = "check_install"
    /\ IF ejbca_install_result # 0 THEN Return(1) ELSE Goto("write_installed")
    /\ UNCHANGED <<argVars, diskVars, ops, config, new_config, domVars,
                   port_retries, ejbcaVars, histVars, enroll_new_cert, obsVars, cliVars, pidVars, extVars>>

\* Core.write_configuration(ejbca.config)
InitWriteInstalled ==
    /\ cmd = "init"
    /\ pc = "write_installed"
    /\ ops' = ops \cup {Op("write_configuration", 254)}
    /\ \E ok \in BOOLEAN :
          IF ok
          THEN Goto("keygen") /\ write_configuration(new_config) /\ UNCHANGED all_ok
          ELSE Goto("except") /\ UNCHANGED disk_config /\ all_ok' = FALSE
    /\ UNCHANGED <<argVars, backups, config, new_config, domVars, port_retries,
                   ejbcaVars, declined, fatal, enroll_new_cert, obsVars, cliVars, pidVars, extVars>>

\* ret, out, err = ejbca.pkcs11_generate_default_key_set(softhsm=soft_config)
\* Ejbca.pkcs11_generate_default_key_set returns the bare 0 or 1, so the
\* unpacking into three names raises TypeError whatever the result: control goes
\* to the except clause, and no line of do_init after this one is ever run.
InitKeygen ==
    /\ cmd = "init"
    /\ pc = "keygen"
    /\ ops' = ops \cup {Op("pkcs11_generate_default_key_set", 259)}
    /\ \E ret \in {0, 1} :
          /\ all_ok' = (all_ok /\ ret = 0)
          /\ keygen_ret' = ret
    /\ Goto("except")
    /\ UNCHANGED <<argVars, diskVars, config, new_config, domVars, port_retries,
                   ejbcaVars, declined, fatal, enroll_new_cert, obsVars, cliVars, pidVars,
                   cfgVars, portVars, renewVars, declVars, waitVars, catVars, memVars, keyVars>>

\* except Exception as ex: ...; return self.return_code(1)
InitExcept ==
    /\ cmd = "init"
    /\ pc = "except"
    /\ Return(1)
    /\ fatal_category' = "generic"
    /\ UNCHANGED <<argVars, diskVars, ops, config, new_config, domVars,
                   port_retries, ejbcaVars, histVars, enroll_new_cert, obsVars, cliVars, pidVars, keygenVars, cfgVars, portVars, renewVars,
                   declVars, waitVars, memVars, keyVars>>

(***************************************************************************)
(* do_onboot                                                               *)
(***************************************************************************)
\* config = Core.read_configuration(); if config is None or not
\* config.has_nonempty_config(): ...; return self.return_code(2)
OnbootReadConfig ==
    /\ cmd = "onboot"
    /\ pc = "read_config"
    /\ config' = disk_config
    /\ IF has_nonempty_config(disk_config)
       THEN Goto("load_identity") /\ UNCHANGED fatal_category
       ELSE Return(2) /\ fatal_category' = "config_missing"
    /\ UNCHANGED <<argVars, diskVars, ops, new_config, domVars, port_retries,
                   ejbcaVars, histVars, enroll_new_cert, obsVars, cliVars, pidVars, keygenVars, cfgVars, portVars, renewVars,
                   declVars, waitVars, memVars, keyVars>>

\* ret = reg_svc.load_identity(); if ret != 0: ...; return self.return_code(3)
\* ...; domain_is_ok = False; domain_ctr = 0; new_config = config
OnbootLoadIdentity ==
    /\ cmd = "onboot"
    /\ pc = "load_identity"
    /\ ops' = ops \cup {Op("load_identity", 419)}
    /\ \E r \in {"0", "1", "raise"} :
          CASE r = "0"     -> Goto("domain_loop") /\ new_config' = config
                              /\ UNCHANGED all_ok
            [] r = "1"     -> Return(3) /\ all_ok' = FALSE /\ UNCHANGED new_config
            [] OTHER       -> Goto("except") /\ all_ok' = FALSE /\ UNCHANGED new_config
    /\ UNCHANGED <<argVars, diskVars, config, domVars, port_retries, ejbcaVars,
                   declined, fatal, enroll_new_cert, obsVars, cliVars, pidVars, extVars>>

\* One pass of `while not domain_is_ok:` with its body: refresh_domain() raises,
\* gives no names, or gives names.
OnbootDomainLoop ==
    /\ cmd = "onboot"
    /\ pc = "domain_loop"
    /\ IF domain_is_ok
       THEN /\ Goto("domain_check")
            /\ loop_over' = TRUE
            /\ UNCHANGED <<ops, new_config, domain_is_ok, domain_ctr, domain_calls,
                           retry_asked, retry_declined, all_ok,
                           prompted, returned_names>>
       ELSE /\ domain_calls < DomainCallCap
            /\ domain_calls' = domain_calls + 1
            /\ ops' = ops \cup {Op("refresh_domain", 435)}
            /\ \E r \in {{"raise"}, {}} \cup DomainSets :
                  CASE r = {"raise"} ->
                          /\ domain_ctr' = domain_ctr + 1
                          /\ all_ok' = FALSE
                          /\ UNCHANGED <<new_config, domain_is_ok, returned_names>>
                          /\ IF noninteractive
                             THEN /\ IF domain_ctr + 1 >= attempts
                                     THEN Goto("domain_check") /\ loop_over' = TRUE
                                     ELSE Goto("domain_loop") /\ UNCHANGED loop_over
                                  /\ UNCHANGED <<retry_asked, retry_declined, prompted>>
                             ELSE /\ retry_asked' = retry_asked + 1
                                  /\ prompted' = (prompted \/ ask_reaches_raw_input(FALSE))
                                  /\ \E a \in AskOutcomes(FALSE) :
                                        IF a = "yes"
                                        THEN /\ Goto("domain_loop")
                                             /\ UNCHANGED <<loop_over, retry_declined>>
                                        ELSE /\ Goto("domain_check")
                                             /\ loop_over' = TRUE
                                             /\ retry_declined' = TRUE
                    [] r = {} ->
                          /\ new_config' = [config EXCEPT !.domains = {}]
                          /\ all_ok' = FALSE
                          /\ Goto("domain_loop")
                          /\ returned_names' = {}
                          /\ UNCHANGED <<domain_is_ok, domain_ctr, retry_asked,
                                         retry_declined, loop_over, prompted>>
                    [] OTHER ->
                          /\ new_config' = [config EXCEPT !.domains = r]
                          /\ domain_is_ok' = TRUE
                          /\ Goto("domain_loop")
                          /\ returned_names' = r
                          /\ UNCHANGED <<domain_ctr, retry_asked, retry_declined,
                                         loop_over, all_ok, prompted>>
    /\ UNCHANGED <<argVars, diskVars, config, port_retries, ejbcaVars, declined,
                   fatal, enroll_new_cert, enough_ram, swap_result, cert_due, cliVars, pidVars, extVars>>

\* if not domain_is_ok: ...; return self.return_code(1)
OnbootDomainCheck ==
    /\ cmd = "onboot"
    /\ pc = "domain_check"
    /\ IF domain_is_ok THEN Goto("write_config") ELSE Return(1)
    /\ UNCHANGED <<argVars, diskVars, ops, config, new_config, domVars,
                   port_retries, ejbcaVars, histVars, enroll_new_cert, obsVars, cliVars, pidVars, extVars>>

\* new_config.last_ipv4 = ...; Core.write_configuration(new_config);
\* return self.return_code(0)
OnbootWriteConfig ==
    /\ cmd = "onboot"
    /\ pc = "write_config"
    /\ ops' = ops \cup {Op("write_configuration", 472)}
    /\ new_config' = [new_config EXCEPT !.last_ipv4 = "current"]
    /\ \E ok \in BOOLEAN :
          IF ok
          THEN Return(0) /\ write_configuration(new_config') /\ UNCHANGED all_ok
          ELSE Goto("except") /\ UNCHANGED disk_config /\ all_ok' = FALSE
    /\ UNCHANGED <<argVars, backups, config, domVars, port_retries, ejbcaVars,
                   declined, fatal, enroll_new_cert, obsVars, cliVars, pidVars, extVars>>

\* except Exception as ex: ...; return self.return_code(1)
OnbootExcept ==
    /\ cmd = "onboot"
    /\ pc = "except"
    /\ Return(1)
    /\ fatal_category' = "generic"
    /\ UNCHANGED <<argVars, diskVars, ops, config, new_config, domVars,
                   port_retries, ejbcaVars, histVars, enroll_new_cert, obsVars, cliVars, pidVars, keygenVars, cfgVars, portVars, renewVars,
                   declVars, waitVars, memVars, keyVars>>

(***************************************************************************)
(* do_renew.  No statement of do_renew is inside a try.                    *)
(***************************************************************************)
\* config = Core.read_configuration(); the two tests that return code 1
RenewReadConfig ==
    /\ cmd = "renew"
    /\ pc = "read_config"
    /\ config' = disk_config
    /\ IF ~has_nonempty_config(disk_config) \/ disk_config.domains = {}
       THEN Return(1) /\ fatal_category' = "config_missing"
       ELSE Goto("hostname") /\ UNCHANGED fatal_category
    /\ UNCHANGED <<argVars, diskVars, ops, new_config, domVars, port_retries,
                   ejbcaVars, histVars, enroll_new_cert, obsVars, cliVars, pidVars, keygenVars, cfgVars, portVars, renewVars,
                   declVars, waitVars, memVars, keyVars>>

\* a variant that takes the default 'localhost' for a host name of its own
RenewHostname_LocalhostIsHost ==
    /\ cmd = "renew"
    /\ pc = "hostname"
    /\ IF config.hostname \in {"none", ""}
       THEN /\ enroll_new_cert' = TRUE
            /\ new_config' = [config EXCEPT !.hostname = CHOOSE d \in config.domains : TRUE]
            /\ Goto("port")
            /\ UNCHANGED <<ops, all_ok, cert_ready>>
       ELSE /\ ops' = ops \cup {Op("is_certificate_ready", 378)}
            /\ new_config' = config
            /\ \E r \in {"0", "1", "raise"} :
                  /\ enroll_new_cert' = (r # "0")
                  /\ cert_ready' = (CASE r = "0" -> "ready" [] r = "1" -> "not_ready"
                                       [] OTHER -> "unknown")
                  /\ all_ok' = (all_ok /\ r # "raise")
                  /\ IF r = "raise" THEN Escape ELSE Goto("port")
    /\ UNCHANGED <<argVars, diskVars, config, domVars, port_retries, ejbcaVars,
                   declined, fatal, obsVars, cliVars, pidVars, keygenVars, cfgVars,
                   portVars, renew_outcome, declVars, waitVars, catVars, memVars, keyVars>>

\* enroll_new_cert = ejbca_host is None or len(ejbca_host) == 0 or ejbca_host == 'localhost'
\* if enroll_new_cert: ejbca.set_domains(domains)
\* if not enroll_new_cert: enroll_new_cert = le_test.is_certificate_ready(domain=ejbca_host) != 0
RenewHostname ==
    /\ cmd = "renew"
    /\ pc = "hostname"
    /\ IF config.hostname \in {"none", "", "localhost"}
       THEN /\ enroll_new_cert' = TRUE
            /\ new_config' = [config EXCEPT !.hostname = CHOOSE d \in config.domains : TRUE]
            /\ Goto("port")
            /\ UNCHANGED <<ops, all_ok, cert_ready>>
       ELSE /\ ops' = ops \cup {Op("is_certificate_ready", 378)}
            /\ new_config' = config
            /\ \E r \in {"0", "1", "raise"} :
                  /\ enroll_new_cert' = (r # "0")
                  /\ cert_ready' = (CASE r = "0" -> "ready" [] r = "1" -> "not_ready"
                                       [] OTHER -> "unknown")
                  /\ all_ok' = (all_ok /\ r # "raise")
                  /\ IF r = "raise" THEN Escape ELSE Goto("port")
    /\ UNCHANGED <<argVars, diskVars, config, domVars, port_retries, ejbcaVars,
                   declined, fatal, obsVars, cliVars, pidVars, keygenVars, cfgVars,
                   portVars, renew_outcome, declVars, waitVars, catVars, memVars, keyVars>>

\* port_ok = self.le_check_port(critical=True); if not port_ok: return self.return_code(10)
RenewPort ==
    /\ cmd = "renew"
    /\ pc = "port"
    /\ ops' = ops \cup {Op("test_port_open", 381)}
    /\ \E r \in {"open", "closed", "raise"} :
          /\ all_ok' = (all_ok /\ r = "open")
          /\ port_open' = IF r = "raise" THEN "unknown" ELSE r
          /\ fatal_category' = IF r = "closed" THEN "port" ELSE "none"
          /\ CASE r = "open"   -> IF enroll_new_cert THEN Goto("le_install")
                                                     ELSE Goto("le_renew")
               [] r = "closed" -> Return(10)
               [] OTHER        -> Escape
    /\ UNCHANGED <<argVars, diskVars, config, new_config, domVars, port_retries,
                   ejbcaVars, declined, fatal, enroll_new_cert, obsVars, cliVars, pidVars,
                   keygenVars, cfgVars, port_answer, renewVars, declVars, waitVars, memVars, keyVars>>

\* ret = self.le_install(ejbca); return self.return_code(ret)
\* le_install: ret = ejbca.le_enroll(); if ret == 0: Core.write_configuration(ejbca.config);
\* ejbca.jboss_reload()
RenewInstall ==
    /\ cmd = "renew"
    /\ pc = "le_install"
    /\ \E ret \in {0, 1, 2, -1} :
          /\ all_ok' = (all_ok /\ ret = 0)
          /\ CASE ret = 0  -> /\ ops' = ops \cup {Op("le_enroll", 559),
                                                  Op("write_configuration", 561),
                                                  Op("jboss_reload", 562)}
                              /\ write_configuration(new_config)
                              /\ Return(0)
               [] ret = -1 -> /\ ops' = ops \cup {Op("le_enroll", 559)}
                              /\ UNCHANGED disk_config
                              /\ Escape
               [] OTHER    -> /\ ops' = ops \cup {Op("le_enroll", 559)}
                              /\ UNCHANGED disk_config
                              /\ Return(ret)
          /\ renew_outcome' = IF ret = 0 THEN "success" ELSE "failed"
    /\ UNCHANGED <<argVars, backups, config, new_config, domVars, port_retries,
                   ejbcaVars, declined, fatal, enroll_new_cert, obsVars, cliVars, pidVars,
                   keygenVars, cfgVars, portVars, cert_ready, declVars, waitVars, catVars, memVars, keyVars>>

\* a variant that does not look at --force
renew_needed_NoForce(force, test_result) == test_result # 0

\* renew_needed = self.args.force or
\*     le_test.test_certificate_for_renew(domain=ejbca.hostname, renewal_before=60*60*24*20) != 0
renew_needed(force, test_result) == force \/ test_result # 0

\* ret = self.le_renew(ejbca); return self.return_code(ret)
\* le_renew: if not renew_needed: return 0; ret = ejbca.le_renew();
\* if ret == 0: Core.write_configuration(ejbca.config); ejbca.jboss_reload()
\* test_result is what test_certificate_for_renew gives (0: not yet due), -1
\* stands for its raising; with --force it is not called
RenewRenew ==
    /\ cmd = "renew"
    /\ pc = "le_renew"
    /\ \E test_result \in {0, 1, -1} :
          IF ~args_force /\ test_result = -1
          THEN /\ ops' = ops \cup {Op("test_certificate_for_renew", 573)}
               /\ Escape
               /\ all_ok' = FALSE
               /\ renew_outcome' = "failed"
               /\ UNCHANGED <<disk_config, cert_due>>
          ELSE
          /\ test_result # -1
          /\ cert_due' = (IF test_result = 0 THEN "fresh" ELSE "due")
          /\ LET tested == IF args_force THEN {}
                           ELSE {Op("test_certificate_for_renew", 573)} IN
             IF ~renew_needed(args_force, test_result)
             THEN /\ ops' = ops \cup tested
                  /\ Return(0)
                  /\ renew_outcome' = "nothing_to_do"
                  /\ UNCHANGED <<disk_config, all_ok>>
             ELSE \E ret \in {0, 1, 2, -1} :
                  /\ all_ok' = (all_ok /\ ret = 0)
                  /\ renew_outcome' = (CASE ret = 0 -> "success"
                                          [] ret = 1 -> "no_change"
                                          [] OTHER   -> "failed")
                  /\ CASE ret = 0  -> /\ ops' = ops \cup tested \cup
                                                 {Op("le_renew", 579),
                                                  Op("write_configuration", 581),
                                                  Op("jboss_reload", 582)}
                                      /\ write_configuration(new_config)
                                      /\ Return(0)
                       [] ret = -1 -> /\ ops' = ops \cup tested \cup {Op("le_renew", 579)}
                                      /\ UNCHANGED disk_config
                                      /\ Escape
                       [] OTHER    -> /\ ops' = ops \cup tested \cup {Op("le_renew", 579)}
                                      /\ UNCHANGED disk_config
                                      /\ Return(ret)
    /\ UNCHANGED <<argVars, backups, config, new_config, domVars, port_retries,
                   ejbcaVars, declined, fatal, enroll_new_cert, enough_ram,
                   swap_result, prompted, returned_names, cliVars, pidVars,
                   keygenVars, cfgVars, portVars, cert_ready, declVars, waitVars, catVars, memVars, keyVars>>

(***************************************************************************)
(* do_undeploy_ejbca.  No statement of it is inside a try.                 *)
(***************************************************************************)
\* should_continue = self.ask_proceed(support_non_interactive=True)   (first)
UndeployConfirm1 ==
    /\ cmd = "undeploy_ejbca"
    /\ pc = "read_config"
    /\ prompted' = (prompted \/ ask_reaches_raw_input(TRUE))
    /\ \E a \in AskOutcomes(TRUE) :
          CASE a = "yes"   -> Goto("confirm2")
            [] a = "raise" -> Escape
            [] OTHER       -> Return(1)
    /\ UNCHANGED <<argVars, diskVars, ops, config, new_config, domVars,
                   port_retries, ejbcaVars, histVars, enroll_new_cert, enough_ram,
                   swap_result, cert_due, returned_names, cliVars, pidVars, extVars>>

\* should_continue = self.ask_proceed(support_non_interactive=True)   (second)
UndeployConfirm2 ==
    /\ cmd = "undeploy_ejbca"
    /\ pc = "confirm2"
    /\ prompted' = (prompted \/ ask_reaches_raw_input(TRUE))
    /\ \E a \in AskOutcomes(TRUE) :
          CASE a = "yes"   -> Goto("undeploy")
            [] a = "raise" -> Escape
            [] OTHER       -> Return(1)
    /\ UNCHANGED <<argVars, diskVars, ops, config, new_config, domVars,
                   port_retries, ejbcaVars, histVars, enroll_new_cert, enough_ram,
                   swap_result, cert_due, returned_names, cliVars, pidVars, extVars>>

\* ejbca.undeploy(); ejbca.jboss_restart(); return self.return_code(0)
UndeployRun ==
    /\ cmd = "undeploy_ejbca"
    /\ pc = "undeploy"
    /\ ops' = ops \cup {Op("undeploy", 511), Op("jboss_restart", 512)}
    /\ \E ok \in BOOLEAN :
          /\ IF ok THEN Return(0) ELSE Escape
          /\ all_ok' = (all_ok /\ ok)
    /\ UNCHANGED <<argVars, diskVars, config, new_config, domVars, port_retries,
                   ejbcaVars, declined, fatal, enroll_new_cert, obsVars, cliVars, pidVars, extVars>>

\* the arguments and the configuration file a command may start with
Commands == {"init", "onboot", "renew", "undeploy_ejbca"}

DiskConfigs(c) ==
    CASE c = "renew" -> {AbsentConfig, OldConfig, NoDomainsConfig, NoHostConfig,
                         LocalhostConfig, EmptyHostConfig}
      [] c = "undeploy_ejbca" -> {OldConfig}
      [] OTHER -> {AbsentConfig, EmptyConfig, OldConfig}

AppInit ==
    /\ cmd \in Commands
    /\ noninteractive \in BOOLEAN
    /\ args_yes \in (IF noninteractive THEN BOOLEAN ELSE {FALSE})
    /\ attempts \in (IF noninteractive /\ cmd \in {"init", "onboot"}
                     THEN 1..MaxAttempts ELSE {3})
    /\ args_email \in (IF cmd = "init" THEN {"none", "valid", "invalid"} ELSE {"none"})
    /\ args_force \in (IF cmd = "renew" THEN BOOLEAN ELSE {FALSE})
    /\ disk_config \in DiskConfigs(cmd)
    /\ AppStart
    /\ CliIdle
    /\ PidIdle
    /\ WaitIdle
    /\ MemIdle
    /\ KeyIdle

AppNext ==
    \/ Guards
    \/ InitReadConfig
    \/ InitConfirm1
    \/ InitConfirm2
    \/ InitBackup
    \/ InitEmail
    \/ InitTestEnv
    \/ InitRam
    \/ InitRamConfirm
    \/ InitCreateSwap
    \/ InitRamRecheck
    \/ InitPort
    \/ InitPortAsk
    \/ InitIdentity
    \/ InitRegistration
    \/ InitDomainLoop
    \/ InitDomainCheck
    \/ InitOnbootHook
    \/ InitCronHook
    \/ InitWriteConfig
    \/ InitSoftHsm
    \/ CfgPrepare
    \/ CfgDeploy
    \/ CfgInstall
    \/ CfgFinish
    \/ InitCheckInstall
    \/ InitWriteInstalled
    \/ InitKeygen
    \/ InitExcept
    \/ OnbootReadConfig
    \/ OnbootLoadIdentity
    \/ OnbootDomainLoop
    \/ OnbootDomainCheck
    \/ OnbootWriteConfig
    \/ OnbootExcept
    \/ RenewReadConfig
    \/ RenewHostname
    \/ RenewPort
    \/ RenewInstall
    \/ RenewRenew
    \/ UndeployConfirm1
    \/ UndeployConfirm2
    \/ UndeployRun

SpecApp == AppInit /\ [][AppNext]_vars

(***************************************************************************)
(* Properties of the command handlers                                      *)
(***************************************************************************)
\* the stage of the installation a call site of do_init belongs to
StageOf(line) ==
    CASE line <= 120 -> 1
      [] line <= 134 -> 2
      [] line <= 160 -> 3
      [] line <= 165 -> 4
      [] line <= 170 -> 5
      [] line <= 176 -> 6
      [] line <= 214 -> 7
      [] line <= 218 -> 8
      [] line <= 221 -> 9
      [] line <= 239 -> 10
      [] line <= 252 -> 11
      [] line <= 254 -> 12
      [] OTHER       -> 13

DomainCommands == {"init", "onboot"}

\* the domain loop has ended without names and every call of the domain
\* operation raised
AllCallsFailed ==
    /\ cmd \in DomainCommands
    /\ loop_over
    /\ ~domain_is_ok
    /\ domain_calls = domain_ctr

\* C4: unattended, --attempts = K: when every call of the domain operation
\* fails, the domain loop of do_init and of do_onboot has called it exactly K
\* times when it ends.
C4_ExactlyKAttempts ==
    (noninteractive /\ AllCallsFailed) => domain_calls = attempts

\* C5: interactive: the operator is asked after every failed call of the
\* domain operation, and the domain loop ends without names only when the
\* operator has declined to try again.
C5_EndsOnlyOnDecline ==
    (~noninteractive /\ cmd \in DomainCommands) =>
        /\ retry_asked = domain_ctr
        /\ (loop_over /\ ~domain_is_ok) => retry_declined

\* C6: unattended: the domain loop never calls the domain operation more often
\* than the attempt ceiling, whatever the operation does on each call.
C6_BoundedCalls ==
    (noninteractive /\ cmd \in DomainCommands) => domain_calls <= attempts

\* C7: do_init on a host without a configuration, every collaborator succeeding
\* on its first call, returns 0, and the file then holds the new registration
\* with at least one domain, written after the certificate-authority install.
C7_FreshInitSucceeds ==
    (cmd = "init" /\ pc = "done" /\ config = AbsentConfig /\ all_ok
        /\ args_email # "invalid") =>
        /\ outcome = "returned"
        /\ last_result = 0
        /\ disk_config.reg = "new"
        /\ disk_config.domains # {}
        /\ Op("write_configuration", 254) \in ops

\* C8: once a stage of do_init has failed fatally, no operation of a later
\* stage is ever run, and the code do_init returns is not 0.
C8_NothingAfterFatalStage ==
    (cmd = "init" /\ fatal # 0) =>
        /\ \A o \in ops : StageOf(o.line) <= fatal
        /\ pc = "done" => (outcome = "returned" /\ last_result # 0)

C8_Witness ==
    /\ cmd = "init"
    /\ fatal = 11
    /\ pc = "done"
    /\ install_i = InstallAttempts
    /\ Op("ant_client_tools", 248) \in ops

\* the operations that save, create or write something
MutatingOps == {"backup_configuration", "new_identity", "new_registration",
                "write_configuration"}

\* C9: interactive do_init over an earlier non-empty configuration: when the
\* operator declines the first or the second confirmation, do_init returns a
\* code other than 0 and no backup, identity creation, registration call or
\* configuration write has happened.
C9_DeclineLeavesNothingDone ==
    (cmd = "init" /\ declined # 0) =>
        /\ pc = "done"
        /\ outcome = "returned"
        /\ last_result # 0
        /\ \A o \in ops : o.op \notin MutatingOps
        /\ backups = {}
        /\ disk_config = config

C9_Witness ==
    /\ cmd = "init"
    /\ ~noninteractive
    /\ has_nonempty_config(config)
    /\ declined = 2
    /\ pc = "done"

\* C10: every run of do_init, do_renew and do_onboot ends by recording a code
\* through return_code; no exception leaves the command.
C10_NoExceptionEscapes ==
    pc = "done" => outcome = "returned"

(***************************************************************************)
(* check_pid.  Several processes of the tool on one host; Core's pid lock  *)
(* is one lock file for the host.                                          *)
(***************************************************************************)
\* --pid-lock ranges over -1 (the default) .. MaxPidlock
MaxPidlock == 2

\* attempt_ctr is only compared with 1 and with args.pidlock: the model stops
\* counting above both
AttemptCtrCap == MaxPidlock + 2

\* Core.pidlock_create(): takes the lock when no live process holds it;
\* pid.PidFileAlreadyRunningError when the caller itself holds it, another
\* pid.PidFileError when another live process does
pidlock_create(p) ==
    IF lock_holder = 0 THEN "created"
    ELSE IF lock_holder = p THEN "PidFileAlreadyRunningError"
    ELSE "PidFileError"

\* first_retry = True; attempt_ctr = 0
CheckPidStart(p) ==
    /\ pid_pc[p] \in {"idle", "passed", "failed"}
    /\ pid_pc' = [pid_pc EXCEPT ![p] = "try"]
    /\ attempt_ctr' = [attempt_ctr EXCEPT ![p] = 0]
    /\ UNCHANGED <<lock_holder, args_pidlock, cliVars, appVars>>

\* a variant that takes every PidFileError for 'this process holds the lock'
CheckPidTry_ErrorPasses(p) ==
    /\ pid_pc[p] = "try"
    /\ attempt_ctr' = [attempt_ctr EXCEPT ![p] = Min(attempt_ctr[p] + 1, AttemptCtrCap)]
    /\ lock_holder' = (IF pidlock_create(p) = "created" THEN p ELSE lock_holder)
    /\ pid_pc' = [pid_pc EXCEPT ![p] = "passed"]
    /\ UNCHANGED <<args_pidlock, cliVars, appVars>>

\* a variant without the test of attempt_ctr against args.pidlock
CheckPidTry_NoLimit(p) ==
    /\ pid_pc[p] = "try"
    /\ attempt_ctr' = [attempt_ctr EXCEPT ![p] = Min(attempt_ctr[p] + 1, AttemptCtrCap)]
    /\ LET r == pidlock_create(p) IN
          /\ lock_holder' = (IF r = "created" THEN p ELSE lock_holder)
          /\ pid_pc' = [pid_pc EXCEPT ![p] =
                 IF r \in {"created", "PidFileAlreadyRunningError"}
                 THEN "passed" ELSE "sleep"]
    /\ UNCHANGED <<args_pidlock, cliVars, appVars>>

\* one pass of the try statement of check_pid:
\*   attempt_ctr += 1; self.core.pidlock_create(); return True
\*   except pid.PidFileAlreadyRunningError: return True
\*   except pid.PidFileError: if self.args.pidlock >= 0 and attempt_ctr >
\*       self.args.pidlock: return False
CheckPidTry(p) ==
    /\ pid_pc[p] = "try"
    /\ attempt_ctr' = [attempt_ctr EXCEPT ![p] = Min(attempt_ctr[p] + 1, AttemptCtrCap)]
    /\ LET r == pidlock_create(p) IN
          /\ lock_holder' = (IF r = "created" THEN p ELSE lock_holder)
          /\ pid_pc' = [pid_pc EXCEPT ![p] =
                 IF r \in {"created", "PidFileAlreadyRunningError"}
                 THEN "passed"
                 ELSE IF args_pidlock[p] >= 0 /\ attempt_ctr'[p] > args_pidlock[p]
                      THEN "failed"
                      ELSE "sleep"]
    /\ UNCHANGED <<args_pidlock, cliVars, appVars>>

\* time.sleep(3), and `while first_retry or retry` with retry = True
CheckPidSleep(p) ==
    /\ pid_pc[p] = "sleep"
    /\ pid_pc' = [pid_pc EXCEPT ![p] = "try"]
    /\ UNCHANGED <<lock_holder, attempt_ctr, args_pidlock, cliVars, appVars>>

\* the process ends after check_pid has returned: its lock, if any, is gone
ProcExit(p) ==
    /\ pid_pc[p] \in {"passed", "failed"}
    /\ pid_pc' = [pid_pc EXCEPT ![p] = "idle"]
    /\ lock_holder' = (IF lock_holder = p THEN 0 ELSE lock_holder)
    /\ UNCHANGED <<attempt_ctr, args_pidlock, cliVars, appVars>>

PidInit ==
    /\ lock_holder = 0
    /\ pid_pc = [p \in Procs |-> "idle"]
    /\ attempt_ctr = [p \in Procs |-> 0]
    /\ args_pidlock \in [Procs -> -1 .. MaxPidlock]
    /\ CliIdle
    /\ AppIdle
    /\ WaitIdle
    /\ MemIdle
    /\ KeyIdle

PidNext ==
    \/ \E p \in Procs : CheckPidStart(p)
    \/ \E p \in Procs : CheckPidTry(p)
    \/ \E p \in Procs : CheckPidSleep(p)
    \/ \E p \in Procs : ProcExit(p)

\* a process inside check_pid keeps running
PidFairness == \A p \in Procs : WF_vars(CheckPidTry(p) \/ CheckPidSleep(p))

SpecPid == PidInit /\ [][PidNext]_vars /\ PidFairness

InCheckPid(p) == pid_pc[p] \in {"try", "sleep"}
CheckPidReturned(p) == pid_pc[p] \in {"passed", "failed"}

C13_OverwriteAfterBackup ==
    [][(disk_config' # disk_config /\ has_nonempty_config(disk_config))
          => disk_config \in backups]_vars

\* the writes of the configuration file that do_init makes: after the domain
\* assignment, after the certificate-authority install, after the enrollment
\* (in le_install)
InitCheckpoints == {Op("write_configuration", 221), Op("write_configuration", 254),
                    Op("write_configuration", 561)}

\* C14: do_init persists the record at three checkpoints, the last after the
\* certificate enrollment (a run whose every step through the key generation
\* succeeded has made all three when it ends); whenever it stops after a
\* checkpoint, the file holds the record as of the last checkpoint made.
C14_ThreeCheckpoints ==
    /\ (cmd = "init" /\ pc = "done" /\ all_ok
           /\ Op("pkcs11_generate_default_key_set", 259) \in ops)
          => InitCheckpoints \subseteq ops
    /\ (cmd = "init" /\ ops \cap InitCheckpoints # {} /\ disk_config # config)
          => disk_config = new_config

\* the positions of do_init from the port preflight on
AfterMemoryPreflight ==
    {"port", "port_ask", "identity", "registration", "domain_loop", "domain_check",
     "onboot_hook", "cron_hook", "write_config", "softhsm", "cfg_prepare",
     "cfg_deploy", "cfg_install", "cfg_finish", "check_install",
     "write_installed", "keygen"}

\* C15: while the last is_enough_ram check was false, do_init reaches neither
\* the identity creation nor any later stage, and when it ends it has returned
\* a code other than 0: after a second check that is still false, after a failed
\* or declined swap creation.
C15_NoStageWithoutMemory ==
    (cmd = "init" /\ enough_ram = "no") =>
        /\ pc \notin AfterMemoryPreflight
        /\ \A o \in ops : StageOf(o.line) <= 3
        /\ pc = "done" => (outcome = "returned" /\ last_result # 0)

C15_Witness ==
    /\ cmd = "init"
    /\ enough_ram = "no"
    /\ swap_result = "ok"
    /\ Op("is_enough_ram", 157) \in ops
    /\ pc = "done"

\* return self.return_code(1) after 'Swap file could not be created'
SwapFailedCode == 1

\* C16: with less free space than the swap size plus the margin, create_swap
\* fails without running the swap command, and the code do_init then returns
\* is not the one it returns when the swap command itself failed.
C16_NoSpaceReportedDistinctly ==
    (cmd = "init" /\ swap_result = "no_space") =>
        /\ Op("swap_command", 149) \notin ops
        /\ pc = "done" => (outcome = "returned" /\ last_result # SwapFailedCode)

\* the calls that enroll or renew a certificate, persist the record or reload
\* the server
RenewEffects == {"le_enroll", "le_renew", "write_configuration", "jboss_reload"}

\* C17: le_renew calls the renew sub-step exactly when --force is set or the
\* certificate is due; when neither holds it makes no enroll or renew call,
\* writes nothing, reloads nothing and returns 0: the host is left as it was.
C17_RenewOnlyWhenNeeded ==
    (cmd = "renew" /\ cert_due # "unknown") =>
        /\ Op("le_renew", 579) \in ops <=> (args_force \/ cert_due = "due")
        /\ (~args_force /\ cert_due = "fresh") =>
              /\ \A o \in ops : o.op \notin RenewEffects
              /\ pc = "done"
              /\ outcome = "returned"
              /\ last_result = 0
              /\ disk_config = config
              /\ backups = {}

C17_Witness ==
    /\ cmd = "renew"
    /\ pc = "done"
    /\ ~args_force
    /\ cert_due = "fresh"
    /\ Op("test_certificate_for_renew", 573) \in ops

\* C18: in the unattended mode no command ever calls raw_input: not at a
\* confirmation, not for the email, not at the port check, not in the domain
\* loop.
C18_NoPromptUnattended ==
    noninteractive => ~prompted

C18_Witness ==
    /\ noninteractive
    /\ cmd = "init"
    /\ has_nonempty_config(config)
    /\ Op("backup_configuration", 119) \in ops
    /\ domain_ctr > 0
    /\ Op("test_port_open", 163) \in ops

\* C19: unattended, the domain operation failing f times and then returning
\* names, f below the attempt ceiling: the domain loop ends in success, with a
\* failure counter of f and with exactly the returned names in the record that
\* is then written.  So a loop in which every call so far has failed does not
\* end below the ceiling, a loop that ends in success has counted every call
\* but the last when none came back empty, and a record written by the command
\* holds the names the operation returned.
C19_FailuresThenNames ==
    (noninteractive /\ cmd \in DomainCommands) =>
        /\ AllCallsFailed => domain_ctr >= attempts
        /\ (loop_over /\ domain_is_ok) =>
              /\ returned_names # {}
              /\ new_config.domains = returned_names
              /\ domain_ctr <= domain_calls - 1
        /\ (domain_calls > 0 /\ disk_config # config) =>
              disk_config.domains = returned_names

\* the first and the last stage of do_init whose operations are reached
FirstCheckedStage == 2
KeygenStage == 13

\* C20: do_init runs its stages in the one order of the listing: every
\* operation it starts belongs to the stage of the operations before it or to a
\* later one, no stage between the asset check and the stage of a started
\* operation has been left out, and no operation of a later stage is started
\* after a stage has failed fatally, after the operator has declined or after
\* do_init has ended.
C20_FixedStageOrder ==
    [][cmd = "init" =>
          \A o \in ops' \ ops :
              /\ \A q \in ops : StageOf(q.line) <= StageOf(o.line)
              /\ \A st \in FirstCheckedStage..(StageOf(o.line) - 1) :
                    \E q \in ops : StageOf(q.line) = st
              /\ fatal = 0 \/ StageOf(o.line) = fatal
              /\ declined = 0
              /\ pc \notin {"done", "except"}]_vars

C20_Witness ==
    /\ cmd = "init"
    /\ has_nonempty_config(config)
    /\ pc = "except"
    /\ fatal = 0
    /\ Op("pkcs11_generate_default_key_set", 259) \in ops
    /\ \A st \in 1..KeygenStage : \E q \in ops : StageOf(q.line) = st

\* C21: a failed generation of the default key set does not end do_init: the
\* run goes on past it (it is not thrown into the except clause), and when
\* nothing else has failed do_init returns 0.
C21_KeygenFailureNotFatal ==
    (cmd = "init" /\ keygen_ret = 1) =>
        /\ pc # "except"
        /\ (pc = "done" /\ fatal = 0) => (outcome = "returned" /\ last_result = 0)

\* every attempt of the deploy loop, or every attempt of the install loop, of
\* Ejbca.configure has been made and has failed
AllAttemptsFailed ==
    \/ deploy_i = DeployAttempts /\ deploy_res # 0
    \/ install_i = InstallAttempts /\ install_res # 0

\* C22: Ejbca.configure makes at most 5 deploy attempts and at most 3 install
\* attempts, makes no further attempt of a sub-step after one with exit status
\* 0, starts installing only after a deploy with status 0, and do_init returns
\* 1 from the certificate-authority stage exactly when every attempt of one of
\* the two sub-steps has failed (otherwise it goes on to write the record).
C22_BoundedAttemptsFatalWhenAllFail ==
    [][cmd = "init" =>
          /\ deploy_i' <= DeployAttempts
          /\ install_i' <= InstallAttempts
          /\ deploy_i' # deploy_i => deploy_res # 0
          /\ install_i' # install_i => (install_res # 0 /\ deploy_res = 0)
          /\ pc = "check_install" =>
                IF AllAttemptsFailed
                THEN pc' = "done" /\ outcome' = "returned" /\ last_result' = 1
                     /\ ops' = ops
                ELSE pc' = "write_installed"]_vars

C22_Witness ==
    /\ cmd = "init"
    /\ pc = "done"
    /\ deploy_i > 1
    /\ deploy_res = 0
    /\ install_i = InstallAttempts
    /\ install_res = 1
    /\ last_result = 1

\* C23: every deploy attempt and every install attempt of Ejbca.configure is
\* started after a restart of the application server and a health poll made
\* since the attempt before it, and only when that poll reported the server
\* healthy.
C23_AttemptOnlyOnHealthyServer ==
    last_attempt.kind # "none" =>
        /\ last_attempt.restarted
        /\ last_attempt.polled = "healthy"

(***************************************************************************)
(* Ejbca.jboss_wait_after_start and Ejbca.jboss_wait_after_deploy          *)
(***************************************************************************)
WaitStartAttempts == 20
WaitDeployAttempts == 30

\* max_attempts of the call
max_attempts == IF wait_kind = "start" THEN WaitStartAttempts ELSE WaitDeployAttempts

\* the two re.search tests on the joined output: outcome => success and
\* result => running for the server state, ejbca.ear ... OK for the deployment
reports_healthy(kind, o) ==
    IF kind = "start"
    THEN {"outcome_success", "result_running"} \subseteq o.feats
    ELSE "ejbca_ear_ok" \in o.feats

\* a variant in which an exception of the query leaves the loop
WaitQuery_ErrorEnds ==
    /\ wait_pc = "loop"
    /\ wait_i < max_attempts
    /\ sleeps' = IF wait_i > 0 THEN sleeps + 1 ELSE sleeps
    /\ queries' = queries + 1
    /\ \E o \in JbossOutputs :
          /\ wait_out' = o
          /\ seen_healthy' = (seen_healthy \/ reports_healthy(wait_kind, o))
          /\ IF o.raised
             THEN /\ wait_pc' = "done"
                  /\ UNCHANGED <<jboss_works, wait_i>>
             ELSE IF ~o.empty /\ reports_healthy(wait_kind, o)
                  THEN /\ jboss_works' = TRUE
                       /\ wait_pc' = "done"
                       /\ UNCHANGED wait_i
                  ELSE /\ wait_i' = wait_i + 1
                       /\ wait_pc' = IF wait_i + 1 < max_attempts THEN "loop" ELSE "done"
                       /\ UNCHANGED jboss_works
    /\ UNCHANGED <<wait_kind, cliVars, argVars, ctlVars, diskVars, ops, config,
                   new_config, domVars, port_retries, ejbcaVars, enroll_new_cert,
                   histVars, obsVars, keygenVars, cfgVars, portVars, renewVars, declVars, catVars, memVars, keyVars, pidVars>>

\* one pass of `for i in range(0, max_attempts)`: the sleep when i > 0, the
\* query, `continue` on an exception or on no output, `break` on a match
WaitQuery ==
    /\ wait_pc = "loop"
    /\ wait_i < max_attempts
    /\ sleeps' = IF wait_i > 0 THEN sleeps + 1 ELSE sleeps
    /\ queries' = queries + 1
    /\ \E o \in JbossOutputs :
          /\ wait_out' = o
          /\ seen_healthy' = (seen_healthy \/ reports_healthy(wait_kind, o))
          /\ IF ~o.raised /\ ~o.empty /\ reports_healthy(wait_kind, o)
             THEN /\ jboss_works' = TRUE
                  /\ wait_pc' = "done"
                  /\ UNCHANGED wait_i
             ELSE /\ wait_i' = wait_i + 1
                  /\ wait_pc' = IF wait_i + 1 < max_attempts THEN "loop" ELSE "done"
                  /\ UNCHANGED jboss_works
    /\ UNCHANGED <<wait_kind, cliVars, argVars, ctlVars, diskVars, ops, config,
                   new_config, domVars, port_retries, ejbcaVars, enroll_new_cert,
                   histVars, obsVars, keygenVars, cfgVars, portVars, renewVars, declVars, catVars, memVars, keyVars, pidVars>>

\* jboss_works = False; max_attempts = 20 (30)
WaitInit ==
    /\ CliIdle
    /\ AppIdle
    /\ PidIdle
    /\ MemIdle
    /\ KeyIdle
    /\ wait_kind \in {"start", "deploy"}
    /\ wait_pc = "loop"
    /\ wait_i = 0
    /\ jboss_works = FALSE
    /\ wait_out = NoOutput
    /\ queries = 0
    /\ sleeps = 0
    /\ seen_healthy = FALSE

WaitNext == WaitQuery

\* the loop goes on while the process runs
WaitFairness == WF_vars(WaitQuery)

SpecWait == WaitInit /\ [][WaitNext]_vars /\ WaitFairness

\* C24: jboss_wait_after_start issues at most 20 status queries and
\* jboss_wait_after_deploy at most 30, with one sleep between consecutive
\* queries; the loop issues no query after one whose output reported the
\* healthy state; it returns true exactly when some query did, and false only
\* after the last allowed query (no output and an exception count as 'not
\* yet'); and every call returns.
C24_BoundedPolling ==
    /\ [](/\ queries <= max_attempts
          /\ sleeps = Max(queries - 1, 0)
          /\ ~(seen_healthy /\ wait_pc = "loop")
          /\ wait_pc = "done" =>
                /\ jboss_works <=> seen_healthy
                /\ ~jboss_works => queries = max_attempts)
    /\ (wait_pc = "loop") ~> (wait_pc = "done")

C24_Witness ==
    /\ wait_kind = "deploy"
    /\ wait_pc = "done"
    /\ jboss_works
    /\ queries = WaitDeployAttempts
    /\ sleeps = WaitDeployAttempts - 1

EnrollOrRenew == {"le_enroll", "le_renew"}

\* C25: le_check_port with the port not reachable.  Critical (do_renew): the
\* command returns 10 and neither the enrollment nor the renewal is called.
\* Not critical and interactive (do_init): the operator is asked, and the
\* answer decides: 'n' goes on to the next stage with nothing run in between,
\* 'q' makes do_init return 10, 'y' tests the port once more and, while it
\* stays closed, asks again.
C25_UnreachablePort ==
    [][/\ (cmd = "renew" /\ port_open' = "closed") =>
              /\ pc' = "done" /\ outcome' = "returned" /\ last_result' = 10
              /\ \A o \in ops' : o.op \notin EnrollOrRenew
       /\ (cmd = "init" /\ ~noninteractive /\ pc = "port" /\ port_open' = "closed") =>
              pc' = "port_ask"
       /\ (cmd = "init" /\ pc = "port_ask") =>
              CASE port_answer' = "no" ->
                      /\ pc' = "identity" /\ ops' = ops /\ outcome' = "running"
                [] port_answer' = "quit" ->
                      /\ pc' = "done" /\ outcome' = "returned" /\ last_result' = 10
                      /\ ops' = ops
                [] OTHER ->
                      /\ port_retries' = port_retries + 1
                      /\ port_open' = "closed" => pc' = "port_ask"
                      /\ port_open' = "open" => pc' = "identity"]_vars

C25_Witness ==
    /\ cmd = "init"
    /\ ~noninteractive
    /\ port_retries > 0
    /\ port_open = "closed"
    /\ port_answer = "quit"
    /\ pc = "done"
    /\ last_result = 10

\* what le_install does after a successful enrollment
InstallEffects == {Op("write_configuration", 561), Op("jboss_reload", 562)}

le_install_called == Op("le_enroll", 559) \in ops
le_renew_called ==
    {Op("test_certificate_for_renew", 573), Op("le_renew", 579)} \cap ops # {}

\* the record has no usable host name, or no certificate is ready for it
FirstEnrollment ==
    \/ config.hostname \in {"none", "", "localhost"}
    \/ cert_ready = "not_ready"

\* C27: do_renew calls le_install, and never le_renew, when the recorded host
\* name is missing, empty or 'localhost' or when no certificate is ready for
\* it; otherwise it calls le_renew and never le_install; a run whose checks
\* of the record and of the port have passed calls exactly one of the two.
C27_EnrollOrRenewByHostname ==
    cmd = "renew" =>
        /\ le_install_called => (FirstEnrollment /\ ~le_renew_called)
        /\ le_renew_called => (~FirstEnrollment /\ ~le_install_called)
        /\ (pc = "done" /\ port_open = "open") => (le_install_called \/ le_renew_called)

C27_Witness ==
    /\ cmd = "renew"
    /\ pc = "done"
    /\ config.hostname = "localhost"
    /\ port_open = "open"
    /\ le_install_called

\* the codes the renewal gives to two of its outcomes: 0 when the certificate
\* was installed or renewed, 1 when the renewal left the certificate unchanged
RenewedCode == 0
NoChangeCode == 1

\* C28: the four outcomes of the renewal (nothing to do, installed or renewed,
\* certificate did not change, failed) have four different codes: do_renew
\* returns 0 for a certificate installed or renewed and for nothing else, and
\* 1 for an unchanged certificate and for nothing else.
C28_DistinctOutcomeCodes ==
    (cmd = "renew" /\ pc = "done" /\ outcome = "returned" /\ renew_outcome # "none") =>
        /\ (renew_outcome = "success") <=> (last_result = RenewedCode)
        /\ (renew_outcome = "no_change") <=> (last_result = NoChangeCode)

\* the domain loop has ended without names
LoopStoppedWithoutNames ==
    /\ cmd \in DomainCommands
    /\ loop_over
    /\ ~domain_is_ok

\* C29: when the domain loop stops without names, do_init ends with a code
\* other than 0 and runs nothing of the stages after the loop (no hook is
\* installed, no configuration written); do_onboot ends too, and the
\* configuration file still holds the record it held at the start, with its
\* domains and its last address.
C29_LoopFailureFatalOrHarmless ==
    LoopStoppedWithoutNames =>
        /\ pc \in {"domain_check", "done"}
        /\ pc = "done" => (outcome = "returned" /\ last_result # 0)
        /\ disk_config = config
        /\ cmd = "init" =>
              \A o \in ops : StageOf(o.line) <= StageOf(185)
        /\ cmd = "onboot" =>
              /\ Op("write_configuration", 472) \notin ops
              /\ disk_config.domains = config.domains
              /\ disk_config.last_ipv4 = config.last_ipv4

C29_Witness ==
    /\ cmd = "init"
    /\ LoopStoppedWithoutNames
    /\ domain_ctr > 1
    /\ pc = "done"
    /\ last_result = 1

\* the stages of do_init at which the operator has answered no or quit: the
\* confirmations over an earlier configuration, the swap file, the port
\* question, the question whether to try the domain again
DeclineStages ==
    {st \in 1..KeygenStage :
        \/ st = StageOf(108) /\ declined # 0
        \/ st = StageOf(145) /\ ram_declined
        \/ st = StageOf(163) /\ port_answer \in {"no", "quit"}
        \/ st = StageOf(203) /\ retry_declined}

\* the same without the answer 'n' to the port question, which le_check_port
\* offers as 'continue without LetsEncrypt'
FatalDeclineStages ==
    {st \in 1..KeygenStage :
        \/ st = StageOf(108) /\ declined # 0
        \/ st = StageOf(145) /\ ram_declined
        \/ st = StageOf(163) /\ port_answer = "quit"
        \/ st = StageOf(203) /\ retry_declined}

\* do_init is ending, or has ended, with a code other than 0 and has run
\* nothing of a stage after the given ones
EndsAt(stages) ==
    /\ pc \in {"domain_check", "done"}
    /\ pc = "done" => (outcome = "returned" /\ last_result # 0)
    /\ \A st \in stages : \A o \in ops : StageOf(o.line) <= st

\* C30: an answer of no or quit at any question of do_init ends the run: it
\* returns a code other than 0 and runs nothing of a later stage.
C30_DeclineIsFatal ==
    (cmd = "init" /\ DeclineStages # {}) => EndsAt(DeclineStages)

\* C30, amended: the same for every question but the port question's 'n';
\* after that answer do_init goes on with the identity stage.
C30_DeclineIsFatalButPortNo ==
    cmd = "init" =>
        /\ FatalDeclineStages # {} => EndsAt(FatalDeclineStages)
        /\ (port_answer = "no" /\ FatalDeclineStages = {} /\ pc = "done") =>
              Op("new_identity", 170) \in ops

C30_Witness ==
    /\ cmd = "init"
    /\ port_answer = "no"
    /\ retry_declined
    /\ pc = "done"
    /\ last_result = 1

\* the codes the commands give to three of the categories: 1 after an
\* exception (generic failure), 2 for a missing configuration (do_onboot), 10
\* for an unreachable port
GenericCode == 1
ConfigMissingCode == 2
PortCode == 10

\* C31: a command that gives up for a missing configuration, a held lock, an
\* unreachable port, too little memory or a generic failure returns a code
\* other than 0 that belongs to that category alone, the same in do_init,
\* do_renew and do_onboot: 1 is returned for a generic failure and for nothing
\* else, 2 for a missing configuration and for nothing else, 10 for an
\* unreachable port and for nothing else.
C31_DistinctFatalCodes ==
    (pc = "done" /\ outcome = "returned" /\ fatal_category # "none") =>
        /\ last_result # 0
        /\ (last_result = GenericCode) <=> (fatal_category = "generic")
        /\ (last_result = ConfigMissingCode) <=> (fatal_category = "config_missing")
        /\ (last_result = PortCode) <=> (fatal_category = "port")

\* the steps of the OS integration stage of do_init
HookLabels == {"onboot_hook", "cron_hook"}

\* C32: a failure of install_onboot_check or of install_cron_renew never aborts
\* do_init: whatever the hook does, the step after the first hook is the
\* second hook and the step after the second hook is the write of the
\* configuration (followed by the token reconfiguration).
C32_HookFailureNeverAborts ==
    [][(cmd = "init" /\ pc \in HookLabels) => pc' \in {"cron_hook", "write_config"}]_vars

\* the ids of the lines of an accumulator, in order
Ids(acc) == [i \in DOMAIN acc |-> acc[i].id]

\* the lines of one stream among the lines written to the log, in order
LoggedOn(stream) == SelectSeq(log, LAMBDA id : script[id].stream = stream)

\* C33: with a log attached, at every point of cli_cmd and for as long as no
\* write to the log has failed, the lines in the log are exactly the lines
\* appended so far to out_acc and to err_acc, each once and in the order of
\* its accumulator, so no line is read while an accumulated line is still
\* missing from the log; and every response was sent when its line was
\* already in the log.  The exit status of the process plays no part.
C33_LogMirrorsAccumulators ==
    (log_obj(caller) # "none" /\ raised # "log") =>
        /\ Len(log) = Len(out_acc) + Len(err_acc)
        /\ LoggedOn("stdout") = Ids(out_acc)
        /\ LoggedOn("stderr") = Ids(err_acc)
        /\ \A i \in DOMAIN fed : fed[i].logged

\* C33 witness: a call with a log has returned a non-zero status after
\* logging a line of each stream, one of them answered by a callback and one
\* collected after the exit was seen.
C33_Witness ==
    /\ cpc = "returned"
    /\ log_obj(caller) # "none"
    /\ ret_code # 0
    /\ out_acc # <<>>
    /\ err_acc # <<>>
    /\ fed # <<>>
    /\ drained # {}
    /\ Len(log) = 2

\* the responses sent for the line with this id, in order
FedFor(id) ==
    LET answers == SelectSeq(fed, LAMBDA f : f.line = id)
    IN  [i \in DOMAIN answers |-> answers[i].resp]

\* C34: a line collected after the exit was seen is handled as a line read
\* while the process runs: it is accumulated, logged, and answered with what
\* the run loop's rule selection (the callback if given, otherwise the default
\* prompt rules) sends for it.
C34_DrainSameAsLoop ==
    cpc = "returned" =>
        \A i \in DOMAIN out_acc :
            out_acc[i].id \in drained =>
                /\ log_obj(caller) # "none" => \E k \in DOMAIN log : log[k] = out_acc[i].id
                /\ FedFor(out_acc[i].id) = LoopOutResponses(caller, out_acc[i])

\* the triggers of a callback in the order the callback tests them, each
\* with the response it sends
CallbackRules(name) ==
    CASE name = "ant_install_answer" ->
            <<[phrase |-> "truststore with the CA certificate for https", prefix |-> "-",
               resp |-> "java_pass"],
              [phrase |-> "keystore with the TLS key for https", prefix |-> "-",
               resp |-> "http_pass"],
              [phrase |-> "the superadmin password", prefix |-> "-",
               resp |-> "superadmin_pass"],
              [phrase |-> "password CA token password", prefix |-> "-", resp |-> "newline"],
              [phrase |-> "-", prefix |-> "Please enter", resp |-> "newline"],
              [phrase |-> "-", prefix |-> "[input] Please enter", resp |-> "newline"]>>
      [] name = "pkcs11_answer" ->
            <<[phrase |-> "Password:", prefix |-> "-", resp |-> "0000"]>>
      [] OTHER -> <<>>

\* the response of the first rule, in order, that the line matches
FirstMatch(rules, line) ==
    LET hits == {k \in DOMAIN rules :
                    \/ rules[k].phrase \in Phrases(line.kind)
                    \/ rules[k].prefix = Prefix(line.kind)}
    IN  IF hits = {} THEN <<>>
        ELSE <<rules[CHOOSE k \in hits : \A j \in hits : k <= j].resp>>

\* C35: for an output line read in the run loop, a given on_out callback alone
\* decides the response: the line gets the response of the first trigger of
\* the callback it matches, in the callback's order, and nothing else, also
\* when it matches a default prompt rule or several triggers; without a
\* callback the line is answered by the default rules when ant_answer is set
\* and not at all otherwise.
C35_ResponsePriority ==
    cpc = "returned" =>
        \A i \in DOMAIN out_acc :
            LET line == out_acc[i]
            IN  line.id \notin drained =>
                    FedFor(line.id) =
                        IF on_out(caller) # "none"
                        THEN FirstMatch(CallbackRules(on_out(caller)), line)
                        ELSE IF ant_answer(caller) /\ MatchesTriggers(line, DefaultTriggers)
                        THEN <<"newline">>
                        ELSE <<>>

\* C35 witness: ant_install has returned after a line read in the run loop
\* that names the trust store and begins with "[input] Please enter" was
\* answered with the trust store password only.
C35_Witness ==
    /\ cpc = "returned"
    /\ caller = "ant_install"
    /\ \E i \in DOMAIN out_acc :
          /\ out_acc[i].kind = "input_truststore"
          /\ out_acc[i].id \notin drained
          /\ FedFor(out_acc[i].id) = <<"java_pass">>

(***************************************************************************)
(* SysConfig: is_enough_ram, get_swap_size_needed and create_swap, as      *)
(* do_init uses them.  Memory sizes are counted in MB (2^20 bytes).        *)
(***************************************************************************)
\* the largest memory and swap size tried
MaxMem == 2048

\* the sizes tried: every multiple of 64 MB and the sizes next to 0.9 GB
\* (921.6 MB) and to 1.6 GB (1638.4 MB)
MemSizes == {m \in 0..MaxMem : m % 64 = 0 \/ m \in {921, 922, 1638, 1639}}

\* 1024*1024*1024 bytes
GB == 1024

\* self.get_virt_mem() + self.get_swap_mem()
get_total_usable_mem(virt, swap) == virt + swap

\* return self.get_total_usable_mem() >= 1024*1024*1024*1.6
is_enough_ram(virt, swap) == get_total_usable_mem(virt, swap) * 10 >= GB * 16

\* get_swap_size_needed without the difference to 1 GB of memory
get_swap_size_needed_Flat(virt) == GB

\* base = 1 GB; if virt_mem < 0.9 GB: base += 1 GB - virt_mem
get_swap_size_needed(virt) ==
    IF virt * 10 < GB * 9 THEN GB + (GB - virt) ELSE GB

\* a size in MB in the units of 128 MB of create_swap above, rounded up
In128(mb) == (mb + 127) \div 128

\* if not syscfg.is_enough_ram():      (the first test)
MemCheck ==
    /\ mem_pc = "check"
    /\ mem_enough' = IF is_enough_ram(virt_mem, swap_mem) THEN "yes" ELSE "no"
    /\ mem_pc' = IF is_enough_ram(virt_mem, swap_mem) THEN "enough" ELSE "create_swap"
    /\ UNCHANGED <<virt_mem, swap_mem>>
    /\ UNCHANGED <<cliVars, argVars, ctlVars, diskVars, ops, config, new_config,
                   domVars, port_retries, ejbcaVars, enroll_new_cert, histVars,
                   obsVars, keygenVars, cfgVars, portVars, renewVars, declVars,
                   waitVars, catVars, keyVars, pidVars>>

\* code, swap_name, swap_size = syscfg.create_swap(): with enough free space
\* and every command of the chain succeeding, a file of size_in_mb MB is
\* active as swap; the swap header takes part of its last MB
MemCreateSwap ==
    /\ mem_pc = "create_swap"
    /\ \E free \in FreeSpaces, swap_rc \in {0, 1}, header \in {0, 1} :
          LET desired_size == get_swap_size_needed(virt_mem)
              r == create_swap(free, In128(desired_size), swap_rc)
          IN  /\ swap_mem' = IF r = "ok" THEN swap_mem + desired_size - header ELSE swap_mem
              /\ mem_pc' = IF r = "ok" THEN "recheck" ELSE "swap_failed"
    /\ UNCHANGED <<virt_mem, mem_enough>>
    /\ UNCHANGED <<cliVars, argVars, ctlVars, diskVars, ops, config, new_config,
                   domVars, port_retries, ejbcaVars, enroll_new_cert, histVars,
                   obsVars, keygenVars, cfgVars, portVars, renewVars, declVars,
                   waitVars, catVars, keyVars, pidVars>>

\* if not syscfg.is_enough_ram(): return self.return_code(1)      (the recheck)
MemRecheck ==
    /\ mem_pc = "recheck"
    /\ mem_enough' = IF is_enough_ram(virt_mem, swap_mem) THEN "yes" ELSE "no"
    /\ mem_pc' = IF is_enough_ram(virt_mem, swap_mem) THEN "enough_after_swap" ELSE "still_low"
    /\ UNCHANGED <<virt_mem, swap_mem>>
    /\ UNCHANGED <<cliVars, argVars, ctlVars, diskVars, ops, config, new_config,
                   domVars, port_retries, ejbcaVars, enroll_new_cert, histVars,
                   obsVars, keygenVars, cfgVars, portVars, renewVars, declVars,
                   waitVars, catVars, keyVars, pidVars>>

MemInit ==
    /\ virt_mem \in MemSizes
    /\ swap_mem \in MemSizes
    /\ mem_pc = "check"
    /\ mem_enough = "unknown"
    /\ CliIdle
    /\ AppIdle
    /\ PidIdle
    /\ WaitIdle
    /\ KeyIdle

MemNext ==
    \/ MemCheck
    \/ MemCreateSwap
    \/ MemRecheck

SpecMem == MemInit /\ [][MemNext]_vars

DeployFailedCode == 2

\* every attempt of the deploy loop has been made and has failed
AllDeploysFailed == deploy_i = DeployAttempts /\ deploy_res # 0

\* C38: Ejbca.configure runs the install sub-step only after a deploy attempt
\* that exited with 0; when all 5 deploy attempts have failed it returns 2 and
\* has run no install attempt and neither the client-tools build nor the final
\* reload; and when it has returned, ejbca_install_result is 0 exactly when a
\* deploy attempt and an install attempt both exited with 0.
C38_InstallOnlyAfterDeploy ==
    cmd = "init" =>
        /\ (install_i > 0 \/ Op("ant_install", 248) \in ops) => deploy_res = 0
        /\ AllDeploysFailed =>
              /\ configure_ret = DeployFailedCode
              /\ install_i = 0
              /\ ops \cap {Op("ant_install", 248), Op("ant_client_tools", 248)} = {}
        /\ configure_ret = DeployFailedCode => AllDeploysFailed
        /\ configure_ret # -1 =>
              (ejbca_install_result = 0 <=> (deploy_res = 0 /\ install_res = 0))
        /\ configure_ret \notin {-1, DeployFailedCode} =>
              /\ configure_ret = ejbca_install_result
              /\ Op("ant_client_tools", 248) \in ops

\* C38 witness: do_init has ended after a configure that returned 2 on five
\* failed deploy attempts.
C38_Witness ==
    /\ cmd = "init"
    /\ pc = "done"
    /\ configure_ret = DeployFailedCode
    /\ deploy_i = DeployAttempts
    /\ ejbca_install_result # 0

(***************************************************************************)
(* Ejbca.pkcs11_generate_default_key_set with pkcs11_generate_key and the  *)
(* retry loop of pkcs11_cmd.                                               *)
(***************************************************************************)
\* the largest retry_attempts argument tried
MaxRetry == 3

\* aliases = [sign_key_alias, default_key_alias, test_key_alias]
Aliases == <<"signKey", "defaultKey", "testKey">>

\* the statuses pkcs11HSM.sh may exit with
KeyExitStatuses == {0, 1}

KeyUnchanged ==
    UNCHANGED <<cliVars, argVars, ctlVars, diskVars, ops, config, new_config,
                domVars, port_retries, ejbcaVars, enroll_new_cert, histVars,
                obsVars, keygenVars, cfgVars, portVars, renewVars, declVars,
                waitVars, catVars, memVars, pidVars>>

\* pkcs11_cmd: one pass of `for i in range(0, retry_attempts)`: cli_cmd runs
\* the generate command; `if ret == 0: return`.  cli_cmd may also raise.
Pkcs11CmdRun ==
    /\ key_pc = "cmd"
    /\ key_try < retry_attempts
    /\ key_try' = key_try + 1
    /\ \E raises \in BOOLEAN, res \in KeyExitStatuses :
          IF raises
          THEN /\ key_pc' = "raised"
               /\ key_cmds' = Append(key_cmds, [alias |-> Aliases[key_idx], ret |-> -1])
               /\ UNCHANGED key_ret
          ELSE /\ key_pc' = IF res = 0 THEN "key_return" ELSE "cmd"
               /\ key_cmds' = Append(key_cmds, [alias |-> Aliases[key_idx], ret |-> res])
               /\ key_ret' = res
    /\ UNCHANGED <<retry_attempts, key_idx, key_result>>
    /\ KeyUnchanged

\* pkcs11_cmd: the loop is over, `return ret, out, err` with the last ret
Pkcs11CmdExhausted ==
    /\ key_pc = "cmd"
    /\ key_try = retry_attempts
    /\ key_pc' = "key_return"
    /\ UNCHANGED <<retry_attempts, key_idx, key_try, key_ret, key_cmds, key_result>>
    /\ KeyUnchanged

\* a variant that goes on to the next alias whatever ret is
KeySetNext_GoesOn ==
    /\ key_pc = "key_return"
    /\ IF key_idx = Len(Aliases)
       THEN /\ key_result' = IF key_ret # 0 THEN 1 ELSE 0
            /\ key_pc' = "done"
            /\ UNCHANGED <<key_idx, key_try, key_ret>>
       ELSE /\ key_idx' = key_idx + 1
            /\ key_try' = 0
            /\ key_ret' = -1
            /\ key_pc' = "cmd"
            /\ UNCHANGED key_result
    /\ UNCHANGED <<retry_attempts, key_cmds>>
    /\ KeyUnchanged

\* pkcs11_generate_default_key_set: `if ret != 0: return 1`, the next alias,
\* `return 0` after the last
KeySetNext ==
    /\ key_pc = "key_return"
    /\ IF key_ret # 0
       THEN /\ key_result' = 1
            /\ key_pc' = "done"
            /\ UNCHANGED <<key_idx, key_try, key_ret>>
       ELSE IF key_idx = Len(Aliases)
       THEN /\ key_result' = 0
            /\ key_pc' = "done"
            /\ UNCHANGED <<key_idx, key_try, key_ret>>
       ELSE /\ key_idx' = key_idx + 1
            /\ key_try' = 0
            /\ key_ret' = -1
            /\ key_pc' = "cmd"
            /\ UNCHANGED key_result
    /\ UNCHANGED <<retry_attempts, key_cmds>>
    /\ KeyUnchanged

KeyInit ==
    /\ retry_attempts \in 0..MaxRetry
    /\ key_pc = "cmd"
    /\ key_idx = 1
    /\ key_try = 0
    /\ key_ret = -1
    /\ key_cmds = <<>>
    /\ key_result = -1
    /\ CliIdle
    /\ AppIdle
    /\ PidIdle
    /\ WaitIdle
    /\ MemIdle

KeyNext ==
    \/ Pkcs11CmdRun
    \/ Pkcs11CmdExhausted
    \/ KeySetNext

SpecKey == KeyInit /\ [][KeyNext]_vars

\* the position of an alias in the order of generation
AliasIdx(a) == CHOOSE k \in DOMAIN Aliases : Aliases[k] = a

\* the commands run for the k-th alias, and whether one of them exited with 0
CmdsFor(k) == SelectSeq(key_cmds, LAMBDA c : c.alias = Aliases[k])
Generated(k) == \E i \in DOMAIN CmdsFor(k) : CmdsFor(k)[i].ret = 0

\* C39: the generate commands run in the order signKey, defaultKey, testKey;
\* for each key at most retry_attempts commands run and none after one that
\* exited with 0; a key is attempted only when the key before it was
\* generated, so nothing runs after a key whose attempts all failed; the
\* function returns 0 exactly when all three keys were generated and 1
\* otherwise; and at most 3 * retry_attempts commands run in all.
C39_KeySetInOrder ==
    /\ \A i, j \in DOMAIN key_cmds :
          i < j => AliasIdx(key_cmds[i].alias) <= AliasIdx(key_cmds[j].alias)
    /\ \A k \in DOMAIN Aliases :
          /\ Len(CmdsFor(k)) <= retry_attempts
          /\ \A i \in DOMAIN CmdsFor(k) : CmdsFor(k)[i].ret = 0 => i = Len(CmdsFor(k))
          /\ (k > 1 /\ CmdsFor(k) # <<>>) => Generated(k - 1)
    /\ Len(key_cmds) <= Len(Aliases) * retry_attempts
    /\ key_pc = "done" =>
          /\ key_result \in {0, 1}
          /\ key_result = 0 <=> \A k \in DOMAIN Aliases : Generated(k)
    /\ key_pc # "done" => key_result = -1

\* C39 witness: the function has returned 1 after generating signKey on a
\* repeated attempt and failing every attempt for defaultKey; no command was
\* run for testKey.
C39_Witness ==
    /\ key_pc = "done"
    /\ key_result = 1
    /\ Len(CmdsFor(1)) > 1
    /\ Generated(1)
    /\ Len(CmdsFor(2)) = retry_attempts
    /\ CmdsFor(3) = <<>>

\* cli_cmd has been left, by return or by an exception
CliLeft == cpc \in {"returned", "raised"}

\* C40: on every path that leaves cli_cmd, also when a callback, a write to
\* the log or the opening of the log raises, the feeder has been closed; the
\* log has been closed if cli_cmd opened it from a file name, and a log object
\* of the caller's is never closed.
C40_FeederAlwaysClosed ==
    CliLeft =>
        /\ feeder_closed
        /\ log_closed => log_obj(caller) = "filename"
        /\ (log_obj(caller) = "filename" /\ raised # "setup") => log_closed

====
